---- MODULE Spec2Model ----
(***************************************************************************)
(* A model of the clothing try-on front-end: the main flow of app.py and   *)
(* the four vendor adapters (TryOnDiffusionClient, PixelCutClient,         *)
(* FASHNClient, FitroomClient).  One try-on run is one behaviour: the      *)
(* inputs are fixed in the initial state, every HTTP exchange is one step, *)
(* and the vendor's answer to it is chosen nondeterministically.           *)
(*                                                                         *)
(* Python values: None is the string "<None>", an absent JSON field is     *)
(* "<absent>", a text shown to the user is the sequence of the parts the   *)
(* f-string joins.  The Japanese message texts are given by an English     *)
(* gloss.                                                                  *)
(***************************************************************************)
EXTENDS Integers, Sequences, FiniteSets, TLC

VARIABLES
    entry,          \* "main": the button of app.main; "generate": a direct call of an
                    \* adapter; "encode", a file operation or "sidebar" in the other
                    \* specifications
    selected_api,   \* the vendor chosen in the sidebar
    api_config,     \* st.session_state.api_config: the four credentials
    person_img,     \* TRUE when a person image is present
    garment_img,    \* TRUE when a garment image is present
    api_params,     \* the options of the request
    api_key,        \* the api_key field of the client in use
    pc,             \* position of the run
    job_id,         \* the prediction_id / task_id the submit call returned
    attempt,        \* the attempt counter of _poll_for_result
    http,           \* HTTP requests issued so far, by kind
    sent,           \* the last HTTP request issued
    last,           \* the response to the last HTTP request
    messages,       \* the st.* messages shown by the last step
    ret,            \* what generate returned
    image,          \* the bitmap handed to an encoder of the adapters
    encoded,        \* what the encoder made of it
    temp,           \* the temporary image files of the call, by path variable
    handle,         \* the file objects opened on them for an upload
    manual_keys     \* what the four key inputs of the sidebar returned

vars == <<entry, selected_api, api_config, person_img, garment_img, api_params,
          api_key, pc, job_id, attempt, http, sent, last, messages, ret, image, encoded,
          temp, handle, manual_keys>>

\* the bitmap under study in the steps that encode one image
encodeVars == <<image, encoded>>

\* the temporary files under study in the steps that save and upload them
fileVars == <<temp, handle>>

\* what no step of a try-on run changes
inputVars == <<entry, selected_api, api_config, person_img, garment_img, api_params,
               encodeVars, fileVars, manual_keys>>

----------------------------------------------------------------------------
(* Values *)

None == "<None>"
Absent == "<absent>"

\* a presence test that only looks for None
TruthyNotNone(x) == x # None

\* Python truthiness of a credential: None and "" are falsy
Truthy(x) == x \notin {None, ""}

Creds == {None, "", "key"}

Vendors == {"Try-On Diffusion", "PixelCut", "FASHN", "Fitroom"}

ConfigKeys == {"segmind_api_key", "pixelcut_api_key", "fashn_api_key", "fitroom_api_key"}

api_key_map ==
    [v \in Vendors |->
        CASE v = "Try-On Diffusion" -> "segmind_api_key"
          [] v = "PixelCut" -> "pixelcut_api_key"
          [] v = "FASHN" -> "fashn_api_key"
          [] v = "Fitroom" -> "fitroom_api_key"]

ModelVersions == {"tryon-v1.6", "tryon-v1.5"}
ClothTypes == {"upper", "combo"}

\* what render_*_settings hands to main for the selected vendor
UiParams(v) ==
    CASE v = "FASHN" ->
            {[model_version |-> m, cloth_type |-> Absent, lower_cloth_image |-> FALSE,
              check_images |-> FALSE] : m \in ModelVersions}
      [] v = "Fitroom" ->
            {p \in [model_version : {Absent}, cloth_type : ClothTypes,
                    lower_cloth_image : BOOLEAN, check_images : BOOLEAN] :
                p.lower_cloth_image => p.cloth_type = "combo"}
      [] OTHER ->
            {[model_version |-> Absent, cloth_type |-> Absent, lower_cloth_image |-> FALSE,
              check_images |-> FALSE]}

\* the keyword arguments a direct caller of generate may pass
CallParams(v) ==
    IF v = "Fitroom"
    THEN [model_version : {Absent}, cloth_type : ClothTypes,
          lower_cloth_image : BOOLEAN, check_images : BOOLEAN]
    ELSE UiParams(v)

Msg(level, text) == [level |-> level, text |-> text]

NoRequest == [kind |-> "none"]
NoResponse == [net |-> "none"]
NoResult == [kind |-> "pending"]
ReturnNone == [kind |-> "None"]
ReturnImage(content) == [kind |-> "Image", content |-> content]

\* the path variables of the adapters that hold a temporary image file:
\* PixelCutClient.generate, check_model_image and check_clothes_image,
\* create_tryon_task
TempPaths == {"person_temp_path", "garment_temp_path", "temp_path",
              "model_temp_path", "cloth_temp_path", "lower_cloth_temp_path"}

\* no temporary file was created, no file object was opened
NoFiles == [p \in TempPaths |-> "none"]

\* the keys of manual_keys in render_api_sidebar
ManualKeys == {"segmind", "pixelcut", "fashn", "fitroom"}

\* every key input is empty
NoInputs == [key \in ManualKeys |-> ""]

\* no bitmap
NoImage == [kind |-> "none"]

HttpKinds == {"check_model", "check_clothes", "submit", "status", "download"}

Issue(kind) == [http EXCEPT ![kind] = @ + 1]

TotalRequests == http["check_model"] + http["check_clothes"] + http["submit"]
                 + http["status"] + http["download"]

\* the text of the last st.error among msgs, <<>> when there is none
LastError(msgs) ==
    LET errs == SelectSeq(msgs, LAMBDA m : m.level = "error")
    IN IF Len(errs) = 0 THEN <<>> ELSE errs[Len(errs)].text

\* the failure reason the user is left with: the last st.error of the step
\* that ended the run
Reason == LastError(messages)

\* a step that ends generate with the messages msgs and the value r
Return(msgs, r) ==
    /\ pc' = "done"
    /\ messages' = msgs
    /\ ret' = r

\* main returns before execute_tryon with the messages msgs
Reject(msgs) ==
    /\ pc' = "rejected"
    /\ messages' = msgs
    /\ ret' = ret

\* an exception leaves generate: nothing is returned and no st.* message is
\* shown by the adapter
Raise ==
    /\ pc' = "raised"
    /\ messages' = <<>>
    /\ ret' = ret

\* a step that shows msgs and goes on at position p
Goto(p, msgs) ==
    /\ pc' = p
    /\ messages' = msgs
    /\ ret' = ret

----------------------------------------------------------------------------
(* HTTP response bodies *)

\* how response.json() fares on a body: "object" gives a dict; "array" a value
\* that is no dict and on which every `key in value` test is false (a list, or
\* a string without the key); "scalar" a value on which the tests or the
\* lookups raise (a number, null); "invalid" makes response.json() raise
JsonKinds == {"object", "array", "scalar", "invalid"}

ErrorFields == {"error", "message", "detail"}

\* the value a vendor puts in each field of an error body
FieldValue(f) == "<" \o f \o " text>"

\* response.text
ResponseText(body) == "<raw " \o body.json \o " body>"

ErrorBodies ==
    {[json |-> "object", fields |-> fs] : fs \in SUBSET ErrorFields}
    \cup {[json |-> j, fields |-> {}] : j \in {"array", "scalar", "invalid"}}

\* bytes of a downloaded result: Image.open decodes the first, raises on the second
ImageContents == {"<jpeg bytes>", "<not an image>"}
Decodable(content) == content = "<jpeg bytes>"

\* codes of a submit response that is not 200
ErrorCodes == {400, 500}

\* error_msg of a non-200 submit response: the prefix and the status code, then
\* the first of the handled fields the JSON body carries, or response.text when
\* reading the body raises
ErrorMsg(prefix, handled, code, body) ==
    LET head == <<prefix, ToString(code)>>
        found == {i \in 1..Len(handled) : handled[i] \in body.fields}
        first == CHOOSE i \in found : \A j \in found : i <= j
    IN CASE body.json = "object" ->
                IF found = {} THEN head
                ELSE head \o <<" - ", FieldValue(handled[first])>>
         [] body.json = "array" -> head
         [] OTHER -> head \o <<" - ", ResponseText(body)>>

TryOnDiffusionErrorMsg(code, body) ==
    ErrorMsg("Try-On Diffusion API error: ", <<"error", "message">>, code, body)

PixelCutErrorMsg(code, body) ==
    ErrorMsg("PixelCut API error: ", <<"error", "message">>, code, body)

FashnErrorMsgNoDetail(code, body) ==
    ErrorMsg("FASHN API run error: ", <<"error", "message">>, code, body)

FashnErrorMsg(code, body) ==
    ErrorMsg("FASHN API run error: ", <<"error", "message", "detail">>, code, body)

FitroomErrorMsg(code, body) ==
    ErrorMsg("task creation error: ", <<"error">>, code, body)

----------------------------------------------------------------------------
(* Start of a run *)

Init ==
    /\ entry \in {"main", "generate"}
    /\ selected_api \in Vendors
    /\ IF entry = "main"
       THEN /\ \E own \in Creds :
                  api_config = [k \in ConfigKeys |->
                                  IF k = api_key_map[selected_api] THEN own
                                  ELSE "other key"]
            /\ person_img \in BOOLEAN
            /\ garment_img \in BOOLEAN
            /\ api_params \in UiParams(selected_api)
       ELSE /\ api_config = [k \in ConfigKeys |-> None]
            /\ person_img = TRUE
            /\ garment_img = TRUE
            /\ api_params \in CallParams(selected_api)
    /\ api_key = None
    /\ pc = "idle"
    /\ job_id = None
    /\ attempt = 0
    /\ http = [k \in HttpKinds |-> 0]
    /\ sent = NoRequest
    /\ last = NoResponse
    /\ messages = <<>>
    /\ ret = NoResult
    /\ image = NoImage
    /\ encoded = NoImage
    /\ temp = NoFiles
    /\ handle = NoFiles
    /\ manual_keys = NoInputs

\* a check that lets a run with one of the two images through
ImagesMissingBoth == ~person_img /\ ~garment_img

\* not person_img or not garment_img
ImagesMissing == ~person_img \/ ~garment_img

\* a client handed the first credential of the configuration
ClientKeyFirst(config, vendor) == config["segmind_api_key"]

\* the credential execute_tryon constructs the client of the vendor with
ClientKey(config, vendor) == config[api_key_map[vendor]]

\* main without its check of the lower garment image
MainNoComboCheck ==
    /\ pc = "idle"
    /\ entry = "main"
    /\ UNCHANGED <<inputVars, job_id, attempt, http, sent, last>>
    /\ IF ImagesMissing
       THEN /\ Reject(<<Msg("error", <<"upload both the person and the garment image">>)>>)
            /\ UNCHANGED api_key
       ELSE IF ~Truthy(api_config[api_key_map[selected_api]])
       THEN /\ Reject(<<Msg("error", <<selected_api, " needs its API key">>)>>)
            /\ UNCHANGED api_key
       ELSE /\ Goto("generate", <<>>)
            /\ api_key' = ClientKey(api_config, selected_api)

\* app.main from the button on: the three checks, then execute_tryon, which
\* constructs the client of the selected vendor with its credential
Main ==
    /\ pc = "idle"
    /\ entry = "main"
    /\ UNCHANGED <<inputVars, job_id, attempt, http, sent, last>>
    /\ IF ImagesMissing
       THEN /\ Reject(<<Msg("error", <<"upload both the person and the garment image">>)>>)
            /\ UNCHANGED api_key
       ELSE IF ~Truthy(api_config[api_key_map[selected_api]])
       THEN /\ Reject(<<Msg("error", <<selected_api, " needs its API key">>)>>)
            /\ UNCHANGED api_key
       ELSE IF /\ selected_api = "Fitroom"
               /\ api_params.cloth_type = "combo"
               /\ ~api_params.lower_cloth_image
       THEN /\ Reject(<<Msg("error", <<"combo try-on needs the lower garment image">>)>>)
            /\ UNCHANGED api_key
       ELSE /\ Goto("generate", <<>>)
            /\ api_key' = ClientKey(api_config, selected_api)

\* a caller constructs a client with some credential and calls generate
CallGenerate ==
    /\ pc = "idle"
    /\ entry = "generate"
    /\ \E key \in Creds : api_key' = key
    /\ Goto("generate", <<>>)
    /\ UNCHANGED <<inputVars, job_id, attempt, http, sent, last>>

----------------------------------------------------------------------------
(* TryOnDiffusionClient *)

TryOnDiffusionResponses ==
    {[net |-> "timeout"], [net |-> "error"]}
    \cup {[net |-> "ok", code |-> c, body |-> b] : c \in ErrorCodes, b \in ErrorBodies}
    \cup {[net |-> "ok", code |-> 200, ctype |-> "application/json", json |-> j, image |-> i] :
            j \in JsonKinds, i \in {Absent} \cup ImageContents}
    \cup {[net |-> "ok", code |-> 200, ctype |-> "image/jpeg", content |-> c] :
            c \in ImageContents}

\* a response handler that reads result_data['image'] without the test for
\* the key
TryOnDiffusionOutcomeNoImageCheck(r) ==
    LET fail(text) == [msgs |-> <<Msg("error", text)>>, ret |-> ReturnNone]
        other == fail(<<"error while calling the Try-On Diffusion API: ", "<exception>">>)
    IN CASE r.net = "timeout" -> fail(<<"Try-On Diffusion API timeout error">>)
         [] r.net = "error" -> fail(<<"Try-On Diffusion API connection error: ", "<exception>">>)
         [] r.code # 200 -> fail(TryOnDiffusionErrorMsg(r.code, r.body))
         [] r.ctype = "application/json" ->
                IF r.json # "object" \/ r.image = Absent THEN other
                ELSE IF Decodable(r.image)
                THEN [msgs |-> <<>>, ret |-> ReturnImage(r.image)]
                ELSE other
         [] OTHER ->
                IF Decodable(r.content)
                THEN [msgs |-> <<>>, ret |-> ReturnImage(r.content)]
                ELSE other

\* what generate does with the response to its POST
TryOnDiffusionOutcome(r) ==
    LET fail(text) == [msgs |-> <<Msg("error", text)>>, ret |-> ReturnNone]
        other == fail(<<"error while calling the Try-On Diffusion API: ", "<exception>">>)
    IN CASE r.net = "timeout" -> fail(<<"Try-On Diffusion API timeout error">>)
         [] r.net = "error" -> fail(<<"Try-On Diffusion API connection error: ", "<exception>">>)
         [] r.code # 200 -> fail(TryOnDiffusionErrorMsg(r.code, r.body))
         [] r.ctype = "application/json" ->
                IF r.json \in {"invalid", "scalar"} THEN other
                ELSE IF r.json = "array" \/ r.image = Absent
                THEN fail(<<"the API response holds no image data">>)
                ELSE IF Decodable(r.image)
                THEN [msgs |-> <<>>, ret |-> ReturnImage(r.image)]
                ELSE other
         [] OTHER ->
                IF Decodable(r.content)
                THEN [msgs |-> <<>>, ret |-> ReturnImage(r.content)]
                ELSE other

\* generate.  encodable: whether image_to_base64 could write both images as JPEG;
\* it is called before the try block, so what it raises leaves generate
TryOnDiffusionGenerate ==
    /\ pc = "generate"
    /\ selected_api = "Try-On Diffusion"
    /\ UNCHANGED <<inputVars, api_key, job_id, attempt>>
    /\ IF ~Truthy(api_key)
       THEN /\ Return(<<Msg("error", <<"the Segmind API key is not set">>)>>, ReturnNone)
            /\ UNCHANGED <<http, sent, last>>
       ELSE \E encodable \in BOOLEAN :
              IF ~encodable
              THEN /\ Raise
                   /\ UNCHANGED <<http, sent, last>>
              ELSE /\ http' = Issue("submit")
                   /\ sent' = [kind |-> "submit", method |-> "POST",
                               fields |-> {"model_image", "cloth_image", "category",
                                           "num_inference_steps", "guidance_scale", "seed",
                                           "base64"}]
                   /\ \E r \in TryOnDiffusionResponses :
                         /\ last' = r
                         /\ Return(TryOnDiffusionOutcome(r).msgs, TryOnDiffusionOutcome(r).ret)

----------------------------------------------------------------------------
(* Download of a result image *)

DownloadCodes == {200, 204, 404}

DownloadResponses ==
    {[net |-> "timeout"], [net |-> "error"]}
    \cup {[net |-> "ok", code |-> c, content |-> b] : c \in DownloadCodes, b \in ImageContents}

----------------------------------------------------------------------------
(* PixelCutClient *)

PixelCutCodes == {200, 201, 202} \cup ErrorCodes

\* result_url: whether the JSON object carries the key
PixelCutResponses ==
    {[net |-> "timeout"], [net |-> "error"]}
    \cup {[net |-> "ok", code |-> c, body |-> b, result_url |-> u] :
            c \in PixelCutCodes, b \in ErrorBodies, u \in {FALSE}}
    \cup {[net |-> "ok", code |-> c, body |-> [json |-> "object", fields |-> {}],
           result_url |-> TRUE] : c \in PixelCutCodes}

PixelCutTimeoutError == <<"PixelCut API timeout error">>
PixelCutConnectionError == <<"PixelCut API connection error: ", "<exception>">>
PixelCutOtherError == <<"error while calling the PixelCut API: ", "<exception>">>
PixelCutDownloadError(code) == <<"download of the result image failed: ", ToString(code)>>

\* a submit step that reports the 202 answer with st.error
PixelCutSubmitOutcome202Error(r) ==
    LET fail(text) == [next |-> "done", msgs |-> <<Msg("error", text)>>]
    IN CASE r.net = "timeout" -> fail(PixelCutTimeoutError)
         [] r.net = "error" -> fail(PixelCutConnectionError)
         [] r.code = 200 ->
                IF r.body.json \in {"invalid", "scalar"} THEN fail(PixelCutOtherError)
                ELSE IF r.result_url THEN [next |-> "download", msgs |-> <<>>]
                ELSE fail(<<"the API response holds no result URL">>)
         [] r.code = 202 ->
                IF r.body.json = "invalid" THEN fail(PixelCutOtherError)
                ELSE fail(<<"queued; checking a job_id is not implemented">>)
         [] OTHER -> fail(PixelCutErrorMsg(r.code, r.body))

\* the POST and what generate does with its response; "download": the follow-up
\* GET of result_url comes next
PixelCutSubmitOutcome(r) ==
    LET fail(text) == [next |-> "done", msgs |-> <<Msg("error", text)>>]
    IN CASE r.net = "timeout" -> fail(PixelCutTimeoutError)
         [] r.net = "error" -> fail(PixelCutConnectionError)
         [] r.code = 200 ->
                IF r.body.json \in {"invalid", "scalar"} THEN fail(PixelCutOtherError)
                ELSE IF r.result_url THEN [next |-> "download", msgs |-> <<>>]
                ELSE fail(<<"the API response holds no result URL">>)
         [] r.code = 202 ->
                IF r.body.json = "invalid" THEN fail(PixelCutOtherError)
                ELSE [next |-> "done",
                      msgs |-> <<Msg("info", <<"queued; checking a job_id is not implemented">>)>>]
         [] OTHER -> fail(PixelCutErrorMsg(r.code, r.body))

PixelCutGenerate ==
    /\ pc = "generate"
    /\ selected_api = "PixelCut"
    /\ UNCHANGED <<inputVars, api_key, job_id, attempt>>
    /\ IF ~Truthy(api_key)
       THEN /\ Return(<<Msg("error", <<"the PixelCut API key is not set">>)>>, ReturnNone)
            /\ UNCHANGED <<http, sent, last>>
       ELSE /\ http' = Issue("submit")
            /\ sent' = [kind |-> "submit", method |-> "POST",
                        fields |-> {"person_image", "garment_image", "garment_mode",
                                    "preprocess_garment", "remove_background",
                                    "wait_for_result"}]
            /\ \E r \in PixelCutResponses :
                  /\ last' = r
                  /\ IF PixelCutSubmitOutcome(r).next = "download"
                     THEN Goto("pixelcut_download", PixelCutSubmitOutcome(r).msgs)
                     ELSE Return(PixelCutSubmitOutcome(r).msgs, ReturnNone)

\* a download that does not look at the status code
PixelCutDownloadOutcomeAnyCode(r) ==
    IF r.net = "ok" /\ Decodable(r.content)
    THEN [msgs |-> <<>>, ret |-> ReturnImage(r.content)]
    ELSE [msgs |-> <<Msg("error", PixelCutOtherError)>>, ret |-> ReturnNone]

\* the GET of result_url and what generate does with its response
PixelCutDownloadOutcome(r) ==
    LET fail(text) == [msgs |-> <<Msg("error", text)>>, ret |-> ReturnNone]
    IN CASE r.net = "timeout" -> fail(PixelCutTimeoutError)
         [] r.net = "error" -> fail(PixelCutConnectionError)
         [] r.code # 200 -> fail(PixelCutDownloadError(r.code))
         [] OTHER ->
                IF Decodable(r.content)
                THEN [msgs |-> <<>>, ret |-> ReturnImage(r.content)]
                ELSE fail(PixelCutOtherError)

PixelCutDownload ==
    /\ pc = "pixelcut_download"
    /\ UNCHANGED <<inputVars, api_key, job_id, attempt>>
    /\ http' = Issue("download")
    /\ sent' = [kind |-> "download", method |-> "GET"]
    /\ \E r \in DownloadResponses :
          /\ last' = r
          /\ Return(PixelCutDownloadOutcome(r).msgs, PixelCutDownloadOutcome(r).ret)

----------------------------------------------------------------------------
(* FASHNClient *)

\* the job identifiers a vendor may hand out
JobIds == {"job-1", "job-2"}

\* how many times one run may be told of a finished job whose download it then
\* has to repeat
MaxDownloads == 2

FashnMaxAttemptsOneMore == 40 + 1

FashnMaxAttempts == 40

\* one inputs object for both versions
FashnInputsMerged(model_version) ==
    {"model_image", "garment_image", "category", "mode", "garment_photo_type",
     "moderation_level", "seed", "num_samples", "segmentation_free"}

\* the keys of the inputs object of the request body
FashnInputs(model_version) ==
    IF model_version = "tryon-v1.6"
    THEN {"model_image", "garment_image", "category", "mode", "garment_photo_type",
          "seed", "num_samples"}
    ELSE {"model_image", "garment_image", "category", "mode", "garment_photo_type",
          "moderation_level", "seed", "num_samples", "segmentation_free"}

FashnSubmitResponses ==
    {[net |-> "timeout"], [net |-> "error"]}
    \cup {[net |-> "ok", code |-> c, body |-> b] : c \in ErrorCodes, b \in ErrorBodies}
    \cup {[net |-> "ok", code |-> 200, json |-> j, id |-> i] :
            j \in JsonKinds, i \in {Absent} \cup JobIds}

FashnPollTimeoutError == <<"FASHN API processing timed out">>

\* the submit timeout reported with the text of the polling timeout
FashnTimeoutErrorAsPoll == FashnPollTimeoutError

FashnTimeoutError == <<"FASHN API timeout error">>
FashnConnectionError == <<"FASHN API connection error: ", "<exception>">>
FashnOtherErrors ==
    <<Msg("error", <<"error while calling the FASHN API: ", "<exception>">>),
      Msg("error", <<"error detail: ", "<exception type>", "<exception>">>)>>

\* the value _poll_for_result returns when its loop runs out
PollTimeoutResult == ReturnNone

\* a submit step that enters the poll loop without looking for the id
FashnSubmitOutcomeNoIdCheck(r) ==
    LET received == Msg("info", <<"response received: status code ", ToString(r.code)>>)
    IN IF r.net = "ok" /\ r.code = 200
       THEN [next |-> "poll", msgs |-> <<received, Msg("info", <<"processing id: ", r.id>>)>>]
       ELSE [next |-> "done", msgs |-> <<Msg("error", FashnTimeoutError)>>]

\* what generate does with the response to its POST; "poll": _poll_for_result
\* is entered with the id of the response
FashnSubmitOutcome(r) ==
    LET fail(msgs) == [next |-> "done", msgs |-> msgs]
        received == Msg("info", <<"response received: status code ", ToString(r.code)>>)
    IN CASE r.net = "timeout" -> fail(<<Msg("error", FashnTimeoutError)>>)
         [] r.net = "error" -> fail(<<Msg("error", FashnConnectionError)>>)
         [] r.code # 200 ->
                fail(<<received>>
                     \o (IF r.body.json = "invalid" THEN <<>>
                         ELSE <<Msg("error", <<"error detail: ", "<error_detail>">>)>>)
                     \o (IF r.body.json \in {"invalid", "scalar"}
                         THEN <<Msg("error", <<"response text: ", ResponseText(r.body)>>)>>
                         ELSE <<>>)
                     \o <<Msg("error", FashnErrorMsg(r.code, r.body))>>)
         [] r.json \in {"invalid", "scalar"} -> fail(<<received>> \o FashnOtherErrors)
         [] r.json = "array" \/ r.id = Absent ->
                fail(<<received,
                       Msg("error", <<"no processing id was obtained">>),
                       Msg("error", <<"response content: ", "<run_result>">>)>>)
         [] OTHER -> [next |-> "poll",
                      msgs |-> <<received, Msg("info", <<"processing id: ", r.id>>)>>]

\* generate up to the call of _poll_for_result.  prepared: whether
\* _prepare_image_data encoded both images (it returns None on an exception)
FashnGenerate ==
    /\ pc = "generate"
    /\ selected_api = "FASHN"
    /\ UNCHANGED <<inputVars, api_key>>
    /\ attempt' = 0
    /\ IF ~Truthy(api_key)
       THEN /\ Return(<<Msg("error", <<"the FASHN API key is not set">>)>>, ReturnNone)
            /\ UNCHANGED <<job_id, http, sent, last>>
       ELSE \E prepared \in BOOLEAN :
              IF ~prepared
              THEN /\ Return(<<Msg("error", <<"error while preparing the image data: ", "<exception>">>),
                               Msg("error", <<"preparing the image data failed">>)>>, ReturnNone)
                   /\ UNCHANGED <<job_id, http, sent, last>>
              ELSE /\ http' = Issue("submit")
                   /\ sent' = [kind |-> "submit", method |-> "POST",
                               model_name |-> api_params.model_version,
                               fields |-> FashnInputs(api_params.model_version)]
                   /\ \E r \in FashnSubmitResponses :
                         /\ last' = r
                         /\ IF FashnSubmitOutcome(r).next = "poll"
                            THEN /\ Goto("poll", FashnSubmitOutcome(r).msgs)
                                 /\ job_id' = r.id
                            ELSE /\ Return(FashnSubmitOutcome(r).msgs, ReturnNone)
                                 /\ UNCHANGED job_id

FashnInProgress == {"starting", "in_queue", "processing"}

FashnStatuses == FashnInProgress \cup {"completed", "failed", "canceled", Absent}

\* the vendor's error text of a failed job
VendorErrors == {"<vendor error A>", "<vendor error B>"}

\* output: Absent (no key), "empty" (a falsy value), "nonlist" (a truthy value
\* that is no list) or "list" (a list with at least one URL)
FashnStatusResponses ==
    {[net |-> "error"]}
    \cup {[net |-> "ok", code |-> c] : c \in ErrorCodes}
    \cup {[net |-> "ok", code |-> 200, json |-> j] : j \in {"invalid", "array", "scalar"}}
    \cup {[net |-> "ok", code |-> 200, json |-> "object", status |-> s,
           output |-> Absent, error |-> Absent] : s \in FashnStatuses \ {"completed", "failed"}}
    \cup {[net |-> "ok", code |-> 200, json |-> "object", status |-> "completed",
           output |-> o, error |-> Absent] : o \in {Absent, "empty", "nonlist", "list"}}
    \cup {[net |-> "ok", code |-> 200, json |-> "object", status |-> "failed",
           output |-> Absent, error |-> e] : e \in {Absent} \cup VendorErrors}

FashnFailedError(error) ==
    <<"FASHN API processing error: ", IF error = Absent THEN "unknown error" ELSE error>>

\* one iteration of the loop of _poll_for_result from the response to its status
\* GET on: "poll" is continue (or falling out of the if chain), "download" the
\* GET of output[0], "done" a return None
FashnPollOutcome(r) ==
    LET warn(text) == [next |-> "poll", msgs |-> <<Msg("warning", text)>>]
    IN CASE r.net = "error" -> warn(<<"network error while polling: ", "<exception>">>)
         [] r.code # 200 -> warn(<<"status request error: ", ToString(r.code)>>)
         [] r.json # "object" -> warn(<<"warning while polling: ", "<exception>">>)
         [] r.status = "completed" ->
                CASE r.output \in {Absent, "empty"} ->
                        [next |-> "done",
                         msgs |-> <<Msg("error", <<"completed, but no result image was found">>),
                                    Msg("error", <<"status result: ", "<status_result>">>)>>]
                  [] r.output = "nonlist" ->
                        [next |-> "done",
                         msgs |-> <<Msg("error", <<"the URL of the result image was not obtained">>)>>]
                  [] OTHER -> [next |-> "download", msgs |-> <<>>]
         [] r.status = "failed" ->
                [next |-> "done",
                 msgs |-> <<Msg("error", FashnFailedError(r.error)),
                            Msg("error", <<"detail: ", "<status_result>">>)>>]
         [] OTHER -> [next |-> "poll", msgs |-> <<>>]

\* the GET of status_url, built once from prediction_id
FashnStatusRequest(prediction_id) ==
    [kind |-> "status", method |-> "GET", id |-> prediction_id]

FashnPoll ==
    /\ pc = "poll"
    /\ selected_api = "FASHN"
    /\ attempt < FashnMaxAttempts
    /\ attempt' = attempt + 1
    /\ http' = Issue("status")
    /\ sent' = FashnStatusRequest(job_id)
    /\ UNCHANGED <<inputVars, api_key, job_id>>
    /\ \E r \in FashnStatusResponses :
          /\ FashnPollOutcome(r).next = "download" => http["download"] < MaxDownloads
          /\ last' = r
          /\ IF FashnPollOutcome(r).next = "done"
             THEN Return(FashnPollOutcome(r).msgs, ReturnNone)
             ELSE Goto(FashnPollOutcome(r).next, FashnPollOutcome(r).msgs)

\* a download step that drops the decoded image and polls on
FashnDownloadOutcomeNoReturn(r) ==
    IF r.net = "ok" /\ r.code # 200
    THEN [next |-> "done", ret |-> ReturnNone,
          msgs |-> <<Msg("error", <<"download of the result image failed: ", ToString(r.code)>>)>>]
    ELSE [next |-> "poll", ret |-> ReturnNone, msgs |-> <<>>]

\* the GET of output_urls[0] inside the loop: "poll" when the exception
\* handlers of the loop catch what it raises
FashnDownloadOutcome(r) ==
    CASE r.net \in {"timeout", "error"} ->
            [next |-> "poll", ret |-> ReturnNone,
             msgs |-> <<Msg("warning", <<"network error while polling: ", "<exception>">>)>>]
      [] r.code # 200 ->
            [next |-> "done", ret |-> ReturnNone,
             msgs |-> <<Msg("error", <<"download of the result image failed: ", ToString(r.code)>>)>>]
      [] Decodable(r.content) ->
            [next |-> "done", ret |-> ReturnImage(r.content), msgs |-> <<>>]
      [] OTHER ->
            [next |-> "poll", ret |-> ReturnNone,
             msgs |-> <<Msg("warning", <<"warning while polling: ", "<exception>">>)>>]

FashnDownload ==
    /\ pc = "download"
    /\ selected_api = "FASHN"
    /\ http' = Issue("download")
    /\ sent' = [kind |-> "download", method |-> "GET"]
    /\ UNCHANGED <<inputVars, api_key, job_id, attempt>>
    /\ \E r \in DownloadResponses :
          /\ last' = r
          /\ IF FashnDownloadOutcome(r).next = "done"
             THEN Return(FashnDownloadOutcome(r).msgs, FashnDownloadOutcome(r).ret)
             ELSE Goto("poll", FashnDownloadOutcome(r).msgs)

\* the loop of _poll_for_result ends without a return
FashnPollTimeout ==
    /\ pc = "poll"
    /\ selected_api = "FASHN"
    /\ ~(attempt < FashnMaxAttempts)
    /\ Return(<<Msg("error", FashnPollTimeoutError)>>, PollTimeoutResult)
    /\ UNCHANGED <<inputVars, api_key, job_id, attempt, http, sent, last>>

----------------------------------------------------------------------------
(* FitroomClient *)

FitroomMaxAttemptsOneMore == 60 + 1

FitroomMaxAttempts == 60

FitroomCallError == <<"error while calling the Fitroom API: ", "<exception>">>

\* a generate that runs the image checks whatever check_images says
FitroomGenerateAlwaysCheck ==
    /\ pc = "generate"
    /\ selected_api = "Fitroom"
    /\ UNCHANGED <<inputVars, api_key, job_id, http, sent, last>>
    /\ attempt' = 0
    /\ IF ~Truthy(api_key)
       THEN Return(<<Msg("error", <<"the Fitroom API key is not set">>)>>, ReturnNone)
       ELSE Goto("check_model", <<>>)

\* generate up to the first HTTP request
FitroomGenerate ==
    /\ pc = "generate"
    /\ selected_api = "Fitroom"
    /\ UNCHANGED <<inputVars, api_key, job_id, http, sent, last>>
    /\ attempt' = 0
    /\ IF ~Truthy(api_key)
       THEN Return(<<Msg("error", <<"the Fitroom API key is not set">>)>>, ReturnNone)
       ELSE IF api_params.check_images
       THEN Goto("check_model", <<>>)
       ELSE Goto("create_task", <<>>)

\* error_code of a negative check: a string that starts with 400, strings of
\* other 4xx codes, another string, no key, or a JSON number
ErrorCodeValues == {"4001", "4040", "401", "5001", Absent, "<int 4001>"}

\* model_check.get('error_code', 'unknown')
ErrorCodeOf(r) == IF r.error_code = Absent THEN "unknown" ELSE r.error_code

\* whether the value has the method startswith
IsStr(code) == code # "<int 4001>"

\* str.startswith
StartsWith(s, prefix) ==
    /\ Len(s) >= Len(prefix)
    /\ SubSeq(s, 1, Len(prefix)) = prefix

\* a test for any code that begins with 4
FatalCodeAny4xx(code) == StartsWith(code, "4")

\* the error codes of a negative model check that make generate return
FatalCode(code) == StartsWith(code, "400")

\* what check_model_image and check_clothes_image return None for
CheckFailures ==
    {[net |-> "error"]}
    \cup {[net |-> "ok", code |-> c] : c \in ErrorCodes}
    \cup {[net |-> "ok", code |-> 200, json |-> "invalid"]}

\* json "empty": a falsy JSON value; "array": a truthy value without .get.
\* good_type: whether cloth_type is among good_clothes_types
CheckModelResponses ==
    CheckFailures
    \cup {[net |-> "ok", code |-> 200, json |-> j] : j \in {"empty", "array"}}
    \cup {[net |-> "ok", code |-> 200, json |-> "object", is_good |-> FALSE,
           error_code |-> e, good_type |-> FALSE] : e \in ErrorCodeValues}
    \cup {[net |-> "ok", code |-> 200, json |-> "object", is_good |-> TRUE,
           error_code |-> Absent, good_type |-> g] : g \in BOOLEAN}

\* the messages of check_model_image or check_clothes_image returning None
CheckFailureMsgs(what, r) ==
    CASE r.net = "error" -> <<Msg("error", <<"error while checking the ", what, " image: ", "<exception>">>)>>
      [] r.code # 200 -> <<Msg("error", <<what, " image check error: ", ToString(r.code)>>)>>
      [] OTHER -> <<Msg("error", <<"error while checking the ", what, " image: ", "<exception>">>)>>

\* the model image check of generate: "check_clothes" goes on, "done" returns
\* None; a result without .get, or an error_code without .startswith, raises
\* into the handler of generate
CheckModelOutcome(r, cloth_type) ==
    LET go(msgs) == [next |-> "check_clothes", msgs |-> msgs]
        warned == Msg("warning", <<"the model image has a problem, error code: ", ErrorCodeOf(r)>>)
    IN CASE r \in CheckFailures -> go(CheckFailureMsgs("model", r))
         [] r.json = "empty" -> go(<<>>)
         [] r.json = "array" -> [next |-> "done", msgs |-> <<Msg("error", FitroomCallError)>>]
         [] ~r.is_good ->
                CASE ~IsStr(ErrorCodeOf(r)) ->
                        [next |-> "done", msgs |-> <<warned, Msg("error", FitroomCallError)>>]
                  [] FatalCode(ErrorCodeOf(r)) ->
                        [next |-> "done",
                         msgs |-> <<warned, Msg("error", <<"the model image cannot be used">>)>>]
                  [] OTHER -> go(<<warned>>)
         [] OTHER ->
                IF cloth_type # "combo" /\ ~r.good_type
                THEN go(<<Msg("warning", <<"cloth type ", cloth_type, " may not suit this model image">>)>>)
                ELSE go(<<>>)

FitroomCheckModel ==
    /\ pc = "check_model"
    /\ http' = Issue("check_model")
    /\ sent' = [kind |-> "check_model", method |-> "POST", files |-> {"input_image"}]
    /\ UNCHANGED <<inputVars, api_key, job_id, attempt>>
    /\ \E r \in CheckModelResponses :
          /\ last' = r
          /\ IF CheckModelOutcome(r, api_params.cloth_type).next = "done"
             THEN Return(CheckModelOutcome(r, api_params.cloth_type).msgs, ReturnNone)
             ELSE Goto("check_clothes", CheckModelOutcome(r, api_params.cloth_type).msgs)

\* same_type: whether clothes_type equals cloth_type
CheckClothesResponses ==
    CheckFailures
    \cup {[net |-> "ok", code |-> 200, json |-> j] : j \in {"empty", "array"}}
    \cup {[net |-> "ok", code |-> 200, json |-> "object", is_clothes |-> c,
           same_type |-> t] : c \in BOOLEAN, t \in BOOLEAN}

\* the clothes image check of generate
CheckClothesOutcome(r, cloth_type) ==
    LET go(msgs) == [next |-> "create_task", msgs |-> msgs]
    IN CASE r \in CheckFailures -> go(CheckFailureMsgs("clothes", r))
         [] r.json = "empty" -> go(<<>>)
         [] r.json = "array" -> [next |-> "done", msgs |-> <<Msg("error", FitroomCallError)>>]
         [] OTHER ->
                go((IF r.is_clothes THEN <<>>
                    ELSE <<Msg("warning", <<"the clothes image may not be suitable">>)>>)
                   \o (IF cloth_type # "combo" /\ ~r.same_type
                       THEN <<Msg("info", <<"detected type: ", "<detected_type>",
                                           ", selected type: ", cloth_type>>)>>
                       ELSE <<>>))

FitroomCheckClothes ==
    /\ pc = "check_clothes"
    /\ http' = Issue("check_clothes")
    /\ sent' = [kind |-> "check_clothes", method |-> "POST", files |-> {"input_image"}]
    /\ UNCHANGED <<inputVars, api_key, job_id, attempt>>
    /\ \E r \in CheckClothesResponses :
          /\ last' = r
          /\ IF CheckClothesOutcome(r, api_params.cloth_type).next = "done"
             THEN Return(CheckClothesOutcome(r, api_params.cloth_type).msgs, ReturnNone)
             ELSE Goto("create_task", CheckClothesOutcome(r, api_params.cloth_type).msgs)

\* a task that carries the lower garment whenever one was passed
TaskFilesAnyType(cloth_type, lower_cloth_image) ==
    IF lower_cloth_image
    THEN {"model_image", "cloth_image", "lower_cloth_image"}
    ELSE {"model_image", "cloth_image"}

\* the files of the multipart POST of create_tryon_task
TaskFiles(cloth_type, lower_cloth_image) ==
    IF cloth_type = "combo" /\ lower_cloth_image
    THEN {"model_image", "cloth_image", "lower_cloth_image"}
    ELSE {"model_image", "cloth_image"}

FitroomSubmitResponses ==
    {[net |-> "timeout"], [net |-> "error"]}
    \cup {[net |-> "ok", code |-> c, body |-> b] : c \in ErrorCodes, b \in ErrorBodies}
    \cup {[net |-> "ok", code |-> 200, json |-> j, task_id |-> Absent] :
            j \in {"invalid", "empty", "array"}}
    \cup {[net |-> "ok", code |-> 200, json |-> "object", task_id |-> i] :
            i \in {Absent} \cup JobIds}

FitroomTaskError(exception) == <<"error while creating the task: ", exception>>
FitroomPollTimeoutError == <<"Fitroom API processing timed out">>

\* create_tryon_task and what generate does with its result
FitroomSubmitOutcome(r) ==
    LET fail(msgs) == [next |-> "done", msgs |-> msgs]
    IN CASE r.net = "timeout" -> fail(<<Msg("error", FitroomTaskError("<timeout exception>"))>>)
         [] r.net = "error" -> fail(<<Msg("error", FitroomTaskError("<connection exception>"))>>)
         [] r.code # 200 -> fail(<<Msg("error", FitroomErrorMsg(r.code, r.body))>>)
         [] r.json = "invalid" -> fail(<<Msg("error", FitroomTaskError("<json exception>"))>>)
         [] r.json = "empty" -> fail(<<>>)
         [] r.json = "array" -> fail(<<Msg("error", FitroomCallError)>>)
         [] r.task_id = Absent -> fail(<<Msg("error", <<"no task id was obtained">>)>>)
         [] OTHER -> [next |-> "poll", msgs |-> <<Msg("info", <<"task id: ", r.task_id>>)>>]

FitroomCreateTask ==
    /\ pc = "create_task"
    /\ http' = Issue("submit")
    /\ sent' = [kind |-> "submit", method |-> "POST", cloth_type |-> api_params.cloth_type,
                files |-> TaskFiles(api_params.cloth_type, api_params.lower_cloth_image)]
    /\ UNCHANGED <<inputVars, api_key, attempt>>
    /\ \E r \in FitroomSubmitResponses :
          /\ last' = r
          /\ IF FitroomSubmitOutcome(r).next = "poll"
             THEN /\ Goto("poll", FitroomSubmitOutcome(r).msgs)
                  /\ job_id' = r.task_id
             ELSE /\ Return(FitroomSubmitOutcome(r).msgs, ReturnNone)
                  /\ UNCHANGED job_id

FitroomInProgress == {"CREATED", "PROCESSING"}

FitroomStatuses == FitroomInProgress \cup {"COMPLETED", "FAILED", "QUEUED", Absent}

\* progress "ok": no key or a number from 0 to 100; "bad": a value that
\* progress / 100.0 or progress_bar.progress raises on.
\* url: whether download_signed_url holds a URL
FitroomStatusResponses ==
    CheckFailures
    \cup {[net |-> "ok", code |-> 200, json |-> j] : j \in {"empty", "array"}}
    \cup {[net |-> "ok", code |-> 200, json |-> "object", status |-> s, progress |-> p,
           url |-> FALSE, error |-> Absent] :
            s \in FitroomStatuses \ {"COMPLETED", "FAILED"}, p \in {"ok", "bad"}}
    \cup {[net |-> "ok", code |-> 200, json |-> "object", status |-> "COMPLETED",
           progress |-> p, url |-> u, error |-> Absent] : p \in {"ok", "bad"}, u \in BOOLEAN}
    \cup {[net |-> "ok", code |-> 200, json |-> "object", status |-> "FAILED",
           progress |-> p, url |-> FALSE, error |-> e] :
            p \in {"ok", "bad"}, e \in {Absent} \cup VendorErrors}

FitroomFailedError(error) ==
    <<"Fitroom API processing error: ", IF error = Absent THEN "processing failed" ELSE error>>

\* a get_task_status that returns None without a message
StatusFailureMsgsSilent(r) == <<>>

\* the messages of get_task_status returning None
StatusFailureMsgs(r) ==
    CASE r.net = "error" -> <<Msg("error", <<"error while getting the status: ", "<exception>">>)>>
      [] r.code # 200 -> <<Msg("error", <<"status request error: ", ToString(r.code)>>)>>
      [] OTHER -> <<Msg("error", <<"error while getting the status: ", "<exception>">>)>>

\* a loop that gives up on the first status request that fails
FitroomPollOutcomeGiveUp(r) ==
    IF r \in CheckFailures THEN [next |-> "done", msgs |-> StatusFailureMsgs(r)]
    ELSE IF r.json \in {"empty", "array"} \/ r.progress = "bad" \/ r.status # "COMPLETED"
    THEN [next |-> "poll", msgs |-> <<>>]
    ELSE [next |-> "download", msgs |-> <<>>]

\* one iteration of the loop of _poll_for_result from the result of
\* get_task_status on
FitroomPollOutcome(r) ==
    LET warn == [next |-> "poll", msgs |-> <<Msg("warning", <<"warning while polling: ", "<exception>">>)>>]
    IN CASE r \in CheckFailures -> [next |-> "poll", msgs |-> StatusFailureMsgs(r)]
         [] r.json = "empty" -> [next |-> "poll", msgs |-> <<>>]
         [] r.json = "array" -> warn
         [] r.progress = "bad" -> warn
         [] r.status = "COMPLETED" ->
                IF r.url THEN [next |-> "download", msgs |-> <<>>]
                ELSE [next |-> "done",
                      msgs |-> <<Msg("error", <<"the URL of the result image was not obtained">>)>>]
         [] r.status = "FAILED" ->
                [next |-> "done", msgs |-> <<Msg("error", FitroomFailedError(r.error))>>]
         [] OTHER -> [next |-> "poll", msgs |-> <<>>]

\* a status request for a task of its own choosing
FitroomStatusRequestOtherTask(task_id) ==
    [kind |-> "status", method |-> "GET", id |-> "job-1"]

\* the GET of get_task_status(task_id)
FitroomStatusRequest(task_id) ==
    [kind |-> "status", method |-> "GET", id |-> task_id]

FitroomPoll ==
    /\ pc = "poll"
    /\ selected_api = "Fitroom"
    /\ attempt < FitroomMaxAttempts
    /\ attempt' = attempt + 1
    /\ http' = Issue("status")
    /\ sent' = FitroomStatusRequest(job_id)
    /\ UNCHANGED <<inputVars, api_key, job_id>>
    /\ \E r \in FitroomStatusResponses :
          /\ FitroomPollOutcome(r).next = "download" => http["download"] < MaxDownloads
          /\ last' = r
          /\ IF FitroomPollOutcome(r).next = "done"
             THEN Return(FitroomPollOutcome(r).msgs, ReturnNone)
             ELSE Goto(FitroomPollOutcome(r).next, FitroomPollOutcome(r).msgs)

\* the GET of download_signed_url inside the loop
FitroomDownloadOutcome(r) ==
    CASE r.net \in {"timeout", "error"} ->
            [next |-> "poll", ret |-> ReturnNone, msgs |-> <<>>]
      [] r.code # 200 ->
            [next |-> "done", ret |-> ReturnNone,
             msgs |-> <<Msg("error", <<"download of the result image failed: ", ToString(r.code)>>)>>]
      [] Decodable(r.content) ->
            [next |-> "done", ret |-> ReturnImage(r.content), msgs |-> <<>>]
      [] OTHER ->
            [next |-> "poll", ret |-> ReturnNone,
             msgs |-> <<Msg("warning", <<"warning while polling: ", "<exception>">>)>>]

FitroomDownload ==
    /\ pc = "download"
    /\ selected_api = "Fitroom"
    /\ http' = Issue("download")
    /\ sent' = [kind |-> "download", method |-> "GET"]
    /\ UNCHANGED <<inputVars, api_key, job_id, attempt>>
    /\ \E r \in DownloadResponses :
          /\ last' = r
          /\ IF FitroomDownloadOutcome(r).next = "done"
             THEN Return(FitroomDownloadOutcome(r).msgs, FitroomDownloadOutcome(r).ret)
             ELSE Goto("poll", FitroomDownloadOutcome(r).msgs)

\* the loop of _poll_for_result ends without a return
FitroomPollTimeout ==
    /\ pc = "poll"
    /\ selected_api = "Fitroom"
    /\ ~(attempt < FitroomMaxAttempts)
    /\ Return(<<Msg("error", FitroomPollTimeoutError)>>, PollTimeoutResult)
    /\ UNCHANGED <<inputVars, api_key, job_id, attempt, http, sent, last>>

Next ==
    \/ Main
    \/ CallGenerate
    \/ TryOnDiffusionGenerate
    \/ PixelCutGenerate
    \/ PixelCutDownload
    \/ FashnGenerate
    \/ FashnPoll
    \/ FashnDownload
    \/ FashnPollTimeout
    \/ FitroomGenerate
    \/ FitroomCheckModel
    \/ FitroomCheckClothes
    \/ FitroomCreateTask
    \/ FitroomPoll
    \/ FitroomDownload
    \/ FitroomPollTimeout

Spec == Init /\ [][Next]_vars

\* every HTTP call returns or raises and the interpreter keeps running the
\* handler: a step that can be taken is taken
FairSpec == Spec /\ WF_vars(Next)

----------------------------------------------------------------------------
(* Encoding of the input bitmaps.  A second specification: one bitmap, the  *)
(* preprocessing of main where it applies, and the encoder of one adapter.  *)

\* bitmap modes: RGB; RGBA and P, which the helpers convert; CMYK, which JPEG
\* holds; I;16 (16-bit greyscale), which JPEG does not hold
Modes == {"RGB", "RGBA", "P", "CMYK", "I;16"}

\* the modes the JPEG writer of Pillow accepts
JpegModes == {"1", "L", "RGB", "RGBX", "CMYK", "YCbCr"}

\* pixel widths and heights: below, at and above the limits 768 and 1024
Sizes == {300, 768, 1000, 1024, 1500, 2048}

Bitmaps == [kind : {"bitmap"}, mode : Modes, width : Sizes, height : Sizes]

Bitmap(mode, width, height) ==
    [kind |-> "bitmap", mode |-> mode, width |-> width, height |-> height]

Jpeg(width, height) == [kind |-> "jpeg", width |-> width, height |-> height]

\* the encoder raised
Raised == [kind |-> "raised"]

\* the encoder returned None
EncodedNone == [kind |-> "None"]

\* the white-background composition of preprocess_image and image_to_base64
ToRgb(img) ==
    IF img.mode \in {"RGBA", "LA", "P"} THEN Bitmap("RGB", img.width, img.height) ELSE img

\* image.save(..., format="JPEG"): the size is kept; a mode JPEG cannot hold raises
SaveJpeg(img) ==
    IF img.mode \in JpegModes THEN Jpeg(img.width, img.height) ELSE Raised

\* int(a * (max_size / b)) for positive integers
Scaled(a, max_size, b) == (a * max_size) \div b

\* preprocess_image of main: the longer side is cut to 1024, then RGBA, LA and
\* P become RGB
preprocess_image(img) ==
    LET max_size == 1024
        width == img.width
        height == img.height
        resized ==
            IF width > max_size \/ height > max_size
            THEN IF width > height
                 THEN Bitmap(img.mode, max_size, Scaled(height, max_size, width))
                 ELSE Bitmap(img.mode, Scaled(width, max_size, height), max_size)
            ELSE img
    IN ToRgb(resized)

\* image_to_base64: conversion to RGB where needed, then the JPEG of the bitmap
image_to_base64(img) == SaveJpeg(ToRgb(img))

Abs(n) == IF n < 0 THEN -n ELSE n

\* Image.thumbnail((max_size, max_size)): no change when the bitmap fits; else
\* the longer side becomes max_size and the other the floor or the ceiling of
\* its scaled length, whichever keeps the aspect ratio better, at least 1
Thumbnail(img, max_size) ==
    LET w == img.width
        h == img.height
        lo(a, b) == (max_size * a) \div b
        hi(a, b) == IF (max_size * a) % b = 0 THEN lo(a, b) ELSE lo(a, b) + 1
        AtLeast1(n) == IF n < 1 THEN 1 ELSE n
        \* x for y = max_size: the key is |w/h - n/max_size|
        x == IF Abs(w * max_size - lo(w, h) * h) <= Abs(w * max_size - hi(w, h) * h)
             THEN lo(w, h) ELSE hi(w, h)
        \* y for x = max_size: the key is |w/h - max_size/n|, 0 for n = 0
        y == IF lo(h, w) = 0 THEN 0
             ELSE IF Abs(w * lo(h, w) - max_size * h) * hi(h, w)
                        <= Abs(w * hi(h, w) - max_size * h) * lo(h, w)
             THEN lo(h, w) ELSE hi(h, w)
    IN IF max_size >= w /\ max_size >= h THEN img
       ELSE IF h >= w THEN Bitmap(img.mode, AtLeast1(x), max_size)
       ELSE Bitmap(img.mode, max_size, AtLeast1(y))

\* a _prepare_image_data that encodes the bitmap as it is
PrepareImageDataNoResize(img, is_model_image) ==
    SaveJpeg(Bitmap("RGB", img.width, img.height))

\* _prepare_image_data once the bitmap is in mode RGB: the resize to 1024 for
\* a model image and to 768 for a garment image, then the JPEG
PrepareImageData(img, is_model_image) ==
    LET rgb == Bitmap("RGB", img.width, img.height)
        width == img.width
        height == img.height
        resized ==
            IF is_model_image
            THEN IF height > width
                 THEN IF height > 1024
                      THEN Bitmap("RGB", Scaled(width, 1024, height), 1024)
                      ELSE rgb
                 ELSE IF width > 1024 \/ height > 1024 THEN Thumbnail(rgb, 1024) ELSE rgb
            ELSE IF width > 768 \/ height > 768 THEN Thumbnail(rgb, 768) ELSE rgb
    IN SaveJpeg(resized)

\* the modes image.convert('RGB') is known to handle; for another mode the
\* conversion may raise, and _prepare_image_data then returns None
ConvertibleModes == {"RGB", "RGBA", "P", "CMYK", "L"}

\* everything but the position and the bitmap
runVars == <<entry, selected_api, api_config, person_img, garment_img, api_params,
             api_key, job_id, attempt, http, sent, last, messages, ret, fileVars,
             manual_keys>>

\* "upload": the bitmap comes from the uploader of main and is preprocessed
\* first; "encode": the bitmap is the one generate is called with
InitEncode ==
    /\ entry = "encode"
    /\ selected_api \in Vendors
    /\ api_config = [k \in ConfigKeys |-> None]
    /\ person_img = TRUE
    /\ garment_img = TRUE
    /\ api_params = [model_version |-> Absent, cloth_type |-> Absent,
                     lower_cloth_image |-> FALSE, check_images |-> FALSE]
    /\ api_key = "key"
    /\ pc \in {"upload", "encode"}
    /\ job_id = None
    /\ attempt = 0
    /\ http = [k \in HttpKinds |-> 0]
    /\ sent = NoRequest
    /\ last = NoResponse
    /\ messages = <<>>
    /\ ret = NoResult
    /\ image \in Bitmaps
    /\ encoded = NoImage
    /\ temp = NoFiles
    /\ handle = NoFiles
    /\ manual_keys = NoInputs

\* main preprocesses the uploaded bitmap before execute_tryon
PreprocessImage ==
    /\ pc = "upload"
    /\ image' = preprocess_image(image)
    /\ pc' = "encode"
    /\ UNCHANGED <<runVars, encoded>>

\* TryOnDiffusionClient.generate encodes an image for the JSON body
ImageToBase64 ==
    /\ pc = "encode"
    /\ selected_api = "Try-On Diffusion"
    /\ encoded' = image_to_base64(image)
    /\ pc' = "encoded"
    /\ UNCHANGED <<runVars, image>>

\* PixelCutClient and FitroomClient save an image to a temporary JPEG file
SaveTempJpeg ==
    /\ pc = "encode"
    /\ selected_api \in {"PixelCut", "Fitroom"}
    /\ encoded' = SaveJpeg(image)
    /\ pc' = "encoded"
    /\ UNCHANGED <<runVars, image>>

\* FASHNClient._prepare_image_data for the model image or the garment image
PrepareImage ==
    /\ pc = "encode"
    /\ selected_api = "FASHN"
    /\ \E is_model_image \in BOOLEAN :
       \E converted \in (IF image.mode \in ConvertibleModes THEN {TRUE} ELSE BOOLEAN) :
          /\ encoded' = (IF converted THEN PrepareImageData(image, is_model_image)
                         ELSE EncodedNone)
          /\ pc' = (IF is_model_image THEN "encoded model" ELSE "encoded garment")
    /\ UNCHANGED <<runVars, image>>

NextEncode ==
    \/ PreprocessImage
    \/ ImageToBase64
    \/ SaveTempJpeg
    \/ PrepareImage

SpecEncode == InitEncode /\ [][NextEncode]_vars

----------------------------------------------------------------------------
(* Temporary files and file objects.  One behaviour of SpecFiles is one    *)
(* call of an operation that saves its images to temporary JPEG files and  *)
(* uploads them: PixelCutClient.generate, check_model_image,               *)
(* check_clothes_image or create_tryon_task (entry names the operation).   *)
(* A step is one group of file operations; whether a save, an open, the    *)
(* POST or an unlink raises is chosen nondeterministically.  What the      *)
(* operation makes of the response is the subject of the steps of Spec.    *)
(*                                                                         *)
(* temp[p]: "none"; "unnamed" (the file exists and the path variable p was *)
(* not assigned); "named" (the file exists and p holds its path);          *)
(* "deleted"; "kept" (os.unlink(p) raised, the file exists).               *)
(* handle[p]: "none", "open", "closed".                                    *)
(***************************************************************************)

FileOps == {"PixelCutClient.generate", "check_model_image", "check_clothes_image",
            "create_tryon_task"}

\* everything but the position and the files
callVars == <<entry, selected_api, api_config, person_img, garment_img, api_params,
              encodeVars, api_key, job_id, attempt, http, sent, last, messages, ret,
              manual_keys>>

InitFiles ==
    /\ entry \in FileOps
    /\ selected_api = (IF entry = "PixelCutClient.generate" THEN "PixelCut" ELSE "Fitroom")
    /\ api_config = [k \in ConfigKeys |-> None]
    /\ person_img = TRUE
    /\ garment_img = TRUE
    /\ api_params \in CallParams(selected_api)
    /\ api_key = "key"
    /\ pc = (IF entry = "PixelCutClient.generate" THEN "save person"
             ELSE IF entry = "create_tryon_task" THEN "save model"
             ELSE "save")
    /\ job_id = None
    /\ attempt = 0
    /\ http = [k \in HttpKinds |-> 0]
    /\ sent = NoRequest
    /\ last = NoResponse
    /\ messages = <<>>
    /\ ret = NoResult
    /\ image = NoImage
    /\ encoded = NoImage
    /\ temp = NoFiles
    /\ handle = NoFiles
    /\ manual_keys = NoInputs

\* with tempfile.NamedTemporaryFile(delete=False) as f: img.save(f.name, "JPEG");
\* path = f.name.  The file exists from the first line on; when save raises,
\* the assignment of the path variable is not reached
SaveTemp(path, img, saved, raised) ==
    IF SaveJpeg(img) = Raised
    THEN /\ temp' = [temp EXCEPT ![path] = "unnamed"]
         /\ pc' = raised
    ELSE /\ temp' = [temp EXCEPT ![path] = "named"]
         /\ pc' = saved

\* the open(path, 'rb') calls of a files dict, in order; the first n succeed
\* and the next one, if any, raises
OpenFiles(paths, n) ==
    [p \in TempPaths |->
        IF \E i \in 1..n : paths[i] = p THEN "open" ELSE handle[p]]

\* the close() calls that follow a POST that returned
CloseFiles == [p \in TempPaths |-> IF handle[p] = "open" THEN "closed" ELSE handle[p]]

\* the operation returns and its file objects become garbage: the collector
\* may close an open one at that moment or at any later time
Collect(collected) == IF collected THEN CloseFiles ELSE handle

\* os.unlink of the paths in deleted succeeds, of those in failed it raises
Unlink(deleted, failed) ==
    [p \in TempPaths |->
        IF p \in deleted THEN "deleted"
        ELSE IF p \in failed THEN "kept"
        ELSE temp[p]]

\* PixelCutClient.generate saves the person image, then the garment image,
\* before its try statement: an exception of save leaves generate
PixelCutSaveTemp ==
    /\ entry = "PixelCutClient.generate"
    /\ pc \in {"save person", "save garment"}
    /\ \E img \in Bitmaps :
          IF pc = "save person"
          THEN SaveTemp("person_temp_path", img, "save garment", "raised")
          ELSE SaveTemp("garment_temp_path", img, "open files", "raised")
    /\ UNCHANGED <<callVars, handle>>

\* the files dict of PixelCutClient.generate: two open calls inside the try
PixelCutOpenFiles ==
    /\ entry = "PixelCutClient.generate"
    /\ pc = "open files"
    /\ \E n \in 0..2 :
          /\ handle' = OpenFiles(<<"person_temp_path", "garment_temp_path">>, n)
          /\ pc' = (IF n = 2 THEN "post" ELSE "finally")
    /\ UNCHANGED <<callVars, temp>>

\* requests.post of PixelCutClient.generate: the two close() calls follow a
\* POST that returned; a Timeout or RequestException goes to the handlers
PixelCutPost ==
    /\ entry = "PixelCutClient.generate"
    /\ pc = "post"
    /\ \E returned \in BOOLEAN :
          handle' = (IF returned THEN CloseFiles ELSE handle)
    /\ pc' = "finally"
    /\ UNCHANGED <<callVars, temp>>

\* the finally of PixelCutClient.generate: both unlink calls in one try with
\* a bare except, so the second is skipped when the first raises
PixelCutFinally ==
    /\ entry = "PixelCutClient.generate"
    /\ pc = "finally"
    /\ \E n \in 0..2 :
          temp' = (CASE n = 0 -> Unlink({}, {"person_temp_path"})
                     [] n = 1 -> Unlink({"person_temp_path"}, {"garment_temp_path"})
                     [] OTHER -> Unlink({"person_temp_path", "garment_temp_path"}, {}))
    /\ \E collected \in BOOLEAN : handle' = Collect(collected)
    /\ pc' = "returned"
    /\ UNCHANGED callVars

\* check_model_image and check_clothes_image save the image before their try
\* statement: an exception of save leaves the operation
CheckImageSave ==
    /\ entry \in {"check_model_image", "check_clothes_image"}
    /\ pc = "save"
    /\ \E img \in Bitmaps : SaveTemp("temp_path", img, "upload", "raised")
    /\ UNCHANGED <<callVars, handle>>

\* with open(temp_path, 'rb') as f: requests.post(...): the with statement
\* closes f whether the POST returns or raises
CheckImageUpload ==
    /\ entry \in {"check_model_image", "check_clothes_image"}
    /\ pc = "upload"
    /\ \E opened \in BOOLEAN :
          handle' = (IF opened THEN [handle EXCEPT !["temp_path"] = "closed"] ELSE handle)
    /\ pc' = "finally"
    /\ UNCHANGED <<callVars, temp>>

\* the finally of check_model_image and check_clothes_image
CheckImageFinally ==
    /\ entry \in {"check_model_image", "check_clothes_image"}
    /\ pc = "finally"
    /\ \E unlinked \in BOOLEAN :
          temp' = (IF unlinked THEN Unlink({"temp_path"}, {}) ELSE Unlink({}, {"temp_path"}))
    /\ pc' = "returned"
    /\ UNCHANGED <<callVars, handle>>

\* create_tryon_task saves the model image, then the cloth image, inside its
\* try statement: an exception of save goes to the handler and the finally
TaskSaveTemp ==
    /\ entry = "create_tryon_task"
    /\ pc \in {"save model", "save cloth"}
    /\ \E img \in Bitmaps :
          IF pc = "save model"
          THEN SaveTemp("model_temp_path", img, "save cloth", "finally")
          ELSE SaveTemp("cloth_temp_path", img, "open files", "finally")
    /\ UNCHANGED <<callVars, handle>>

\* the files dict of create_tryon_task: two open calls
TaskOpenFiles ==
    /\ entry = "create_tryon_task"
    /\ pc = "open files"
    /\ \E n \in 0..2 :
          /\ handle' = OpenFiles(<<"model_temp_path", "cloth_temp_path">>, n)
          /\ pc' = (IF n < 2 THEN "finally"
                    ELSE IF api_params.cloth_type = "combo" /\ api_params.lower_cloth_image
                    THEN "save lower"
                    ELSE "post")
    /\ UNCHANGED <<callVars, temp>>

\* the lower garment of a combo task: saved and opened while the first two
\* file objects are open
TaskSaveLower ==
    /\ entry = "create_tryon_task"
    /\ pc = "save lower"
    /\ \E img \in Bitmaps, opened \in BOOLEAN :
          IF SaveJpeg(img) # Raised /\ ~opened
          THEN /\ temp' = [temp EXCEPT !["lower_cloth_temp_path"] = "named"]
               /\ pc' = "finally"
               /\ handle' = handle
          ELSE /\ SaveTemp("lower_cloth_temp_path", img, "post", "finally")
               /\ handle' = (IF SaveJpeg(img) # Raised
                             THEN OpenFiles(<<"lower_cloth_temp_path">>, 1)
                             ELSE handle)
    /\ UNCHANGED callVars

\* requests.post of create_tryon_task: the loop of close() calls follows a
\* POST that returned; an exception goes to the handler
TaskPost ==
    /\ entry = "create_tryon_task"
    /\ pc = "post"
    /\ \E returned \in BOOLEAN :
          handle' = (IF returned THEN CloseFiles ELSE handle)
    /\ pc' = "finally"
    /\ UNCHANGED <<callVars, temp>>

\* the finally of create_tryon_task: one try per path variable that is set
TaskFinally ==
    /\ entry = "create_tryon_task"
    /\ pc = "finally"
    /\ LET named == {p \in TempPaths : temp[p] = "named"}
       IN \E deleted \in SUBSET named : temp' = Unlink(deleted, named \ deleted)
    /\ \E collected \in BOOLEAN : handle' = Collect(collected)
    /\ pc' = "returned"
    /\ UNCHANGED callVars

NextFiles ==
    \/ PixelCutSaveTemp
    \/ PixelCutOpenFiles
    \/ PixelCutPost
    \/ PixelCutFinally
    \/ CheckImageSave
    \/ CheckImageUpload
    \/ CheckImageFinally
    \/ TaskSaveTemp
    \/ TaskOpenFiles
    \/ TaskSaveLower
    \/ TaskPost
    \/ TaskFinally

SpecFiles == InitFiles /\ [][NextFiles]_vars

----------------------------------------------------------------------------
(* The sidebar.  One behaviour of SpecSidebar is one browser session: the  *)
(* configuration is loaded from the environment once, and every rerun of   *)
(* main renders the sidebar and stores the configuration it returns.       *)
(***************************************************************************)

\* what os.getenv gives for a key variable: unset, set to "", set to a key
EnvValues == {None, "", "env key"}

\* the texts a user types into a key input
TypedKeys == {"typed key"}

\* the texts a key input can return
KeyTexts == TypedKeys \cup (EnvValues \ {None})

\* st.text_input(value=env_keys[x] if env_keys[x] else ""): the stored key
\* while the field is untouched, else what the user left in it
ManualInputs(stored) ==
    {""} \cup TypedKeys \cup (IF Truthy(stored) THEN {stored} ELSE {})

\* an update that writes every input, the empty ones too
UpdatedConfigUnguarded(config, manual) ==
    [k \in ConfigKeys |->
        LET key == CHOOSE m \in ManualKeys : m \o "_api_key" = k
        IN manual[key]]

\* updated_config of render_api_sidebar: a copy of api_config in which each
\* non-empty input replaces the key f"{key}_api_key"
UpdatedConfig(config, manual) ==
    [k \in ConfigKeys |->
        LET key == CHOOSE m \in ManualKeys : m \o "_api_key" = k
        IN IF manual[key] # "" THEN manual[key] ELSE config[k]]

\* the session starts: st.session_state.api_config = load_api_config()
InitSidebar ==
    /\ entry = "sidebar"
    /\ selected_api = "Try-On Diffusion"
    /\ api_config \in [ConfigKeys -> EnvValues]
    /\ person_img = FALSE
    /\ garment_img = FALSE
    /\ api_params = [model_version |-> Absent, cloth_type |-> Absent,
                     lower_cloth_image |-> FALSE, check_images |-> FALSE]
    /\ api_key = None
    /\ pc = "loaded"
    /\ job_id = None
    /\ attempt = 0
    /\ http = [k \in HttpKinds |-> 0]
    /\ sent = NoRequest
    /\ last = NoResponse
    /\ messages = <<>>
    /\ ret = NoResult
    /\ image = NoImage
    /\ encoded = NoImage
    /\ temp = NoFiles
    /\ handle = NoFiles
    /\ manual_keys = NoInputs

\* one rerun of main up to the sidebar: the four key inputs and the vendor
\* select box are read, and the configuration render_api_sidebar returns
\* replaces the stored one
RenderApiSidebar ==
    /\ entry = "sidebar"
    /\ \E manual \in [ManualKeys -> KeyTexts] :
          /\ \A key \in ManualKeys :
                manual[key] \in ManualInputs(api_config[key \o "_api_key"])
          /\ manual_keys' = manual
          /\ api_config' = UpdatedConfig(api_config, manual)
    /\ selected_api' \in Vendors
    /\ pc' = "rendered"
    /\ UNCHANGED <<person_img, garment_img, api_params, encodeVars, fileVars, entry,
                   api_key, job_id, attempt, http, sent, last, messages, ret>>

NextSidebar == RenderApiSidebar

SpecSidebar == InitSidebar /\ [][NextSidebar]_vars

----------------------------------------------------------------------------
(* Properties *)

\* the text x is one of the parts of a st.error message of the last step
ErrorShows(x) ==
    \E i \in 1..Len(messages) :
        /\ messages[i].level = "error"
        /\ \E j \in 1..Len(messages[i].text) : messages[i].text[j] = x

\* the last HTTP exchange was a status poll that answered 200 with a JSON object
StatusObjectPolled ==
    /\ sent.kind = "status"
    /\ last.net = "ok"
    /\ last.code = 200
    /\ last.json = "object"

\* C1: generate of any of the four adapters, called with an absent credential
\* (None or the empty string), returns None and issues no HTTP request at all.
C1_NoCredentialNoRequest ==
    (pc \notin {"idle", "generate", "rejected"} /\ api_key \in {None, ""})
        => (pc = "done" /\ ret = ReturnNone /\ TotalRequests = 0)

C1_Witness ==
    /\ pc = "done"
    /\ selected_api = "PixelCut"
    /\ api_key = ""
    /\ ret = ReturnNone
    /\ TotalRequests = 0

\* C2: in FASHNClient and FitroomClient a status poll that reports a status
\* still in progress never ends the run by itself, and a run whose last poll
\* reported such a status ends in the timeout failure after exactly 40 (FASHN)
\* or 60 (Fitroom) status requests.
C2_InProgressPolled ==
    /\ StatusObjectPolled
    /\ last.status \in (IF selected_api = "FASHN" THEN FashnInProgress ELSE FitroomInProgress)

C2_TimeoutAfterCeiling ==
    C2_InProgressPolled =>
        \/ pc = "poll" /\ ret = NoResult
        \/ /\ pc = "done"
           /\ ret = ReturnNone
           /\ Reason = (IF selected_api = "FASHN" THEN FashnPollTimeoutError
                        ELSE FitroomPollTimeoutError)
           /\ http["status"] = (IF selected_api = "FASHN" THEN 40 ELSE 60)

C2_Witness ==
    /\ pc = "done"
    /\ selected_api = "FASHN"
    /\ C2_InProgressPolled
    /\ http["status"] = 40
    /\ http["download"] = 0

\* the last HTTP exchange was the download GET of a poll loop
ResultDownloaded ==
    /\ selected_api \in {"FASHN", "Fitroom"}
    /\ sent.kind = "download"

\* C3 as stated: in FASHNClient and FitroomClient, once a poll reported
\* completed/COMPLETED with a valid result reference and the download of it
\* answered 200, generate returns the image and never a failure.
C3_Download200GivesImage ==
    (ResultDownloaded /\ last.net = "ok" /\ last.code = 200)
        => (pc = "done" /\ ret.kind = "Image")

\* C3 amended: ... and the fetched bytes decode as an image, generate returns
\* at once the image decoded from exactly those bytes.
C3_DecodableDownloadGivesImage ==
    (ResultDownloaded /\ last.net = "ok" /\ last.code = 200 /\ Decodable(last.content))
        => (pc = "done" /\ ret = [kind |-> "Image", content |-> last.content])

C3_Witness ==
    /\ ResultDownloaded
    /\ selected_api = "Fitroom"
    /\ last.net = "ok"
    /\ last.code = 200
    /\ ret = [kind |-> "Image", content |-> "<jpeg bytes>"]
    /\ http["download"] = 1

\* C4: in FASHNClient and FitroomClient a status poll that reports
\* failed/FAILED ends generate at once: it returns None, the reason shown
\* carries the vendor's error text unchanged, and no further request follows.
C4_FailedEndsRun ==
    (StatusObjectPolled /\ last.status \in {"failed", "FAILED"})
        => /\ pc = "done"
           /\ ret = ReturnNone
           /\ last.error # Absent => ErrorShows(last.error)

\* C5: in the poll loops of FASHNClient and FitroomClient a status poll that
\* meets an unknown status value, a non-200 response or a network error never
\* ends the loop: the run goes on polling, and it can only end in the timeout
\* failure, after 40 (FASHN) or 60 (Fitroom) attempts.
C5_TransientPolled ==
    /\ selected_api \in {"FASHN", "Fitroom"}
    /\ sent.kind = "status"
    /\ \/ last.net = "error"
       \/ last.code # 200
       \/ /\ last.json = "object"
          /\ last.status \notin {"starting", "in_queue", "processing", "completed", "failed",
                                 "CREATED", "PROCESSING", "COMPLETED", "FAILED"}

C5_TransientNeverEndsLoop ==
    C5_TransientPolled =>
        \/ pc = "poll" /\ ret = NoResult
        \/ /\ pc = "done"
           /\ ret = ReturnNone
           /\ attempt = (IF selected_api = "FASHN" THEN 40 ELSE 60)
           /\ Reason = (IF selected_api = "FASHN" THEN <<"FASHN API processing timed out">>
                        ELSE <<"Fitroom API processing timed out">>)

C5_Witness ==
    /\ C5_TransientPolled
    /\ selected_api = "Fitroom"
    /\ last.net = "error"
    /\ pc = "done"
    /\ attempt = 60

\* a status code of the 2xx class
Is2xx(code) == code \in 200..299

\* C6 as stated: in PixelCutClient.generate a 2xx submit response containing
\* result_url triggers exactly one follow-up GET; a non-2xx answer to that GET
\* is the download failure, any other answer gives the fetched bytes as the image.
C6_2xxResultUrlFetched ==
    /\ (selected_api = "PixelCut" /\ sent.kind = "submit" /\ last.net = "ok"
            /\ Is2xx(last.code) /\ last.result_url)
        => (pc = "pixelcut_download" /\ http["download"] = 0)
    /\ (selected_api = "PixelCut" /\ sent.kind = "download" /\ last.net = "ok")
        => /\ pc = "done"
           /\ http["download"] = 1
           /\ IF Is2xx(last.code)
              THEN ret = [kind |-> "Image", content |-> last.content]
              ELSE ret = ReturnNone /\ Reason = PixelCutDownloadError(last.code)

\* C6 amended: a submit response with status 200 whose JSON body contains
\* result_url triggers exactly one follow-up GET (a 201 or 202 response triggers
\* none); an answer to that GET with a status other than 200 is the download
\* failure, an answer of 200 with bytes that decode gives those bytes as the
\* image, and a GET that raises or bytes that do not decode give None with an
\* error shown.
C6_200ResultUrlFetched ==
    /\ (selected_api = "PixelCut" /\ sent.kind = "submit" /\ last.net = "ok" /\ last.result_url)
        => IF last.code = 200 /\ last.body.json = "object"
           THEN pc = "pixelcut_download" /\ http["download"] = 0 /\ ret = NoResult
           ELSE pc = "done" /\ http["download"] = 0 /\ ret = ReturnNone
    /\ (selected_api = "PixelCut" /\ sent.kind = "download")
        => /\ pc = "done"
           /\ http["download"] = 1
           /\ http["submit"] = 1
           /\ IF last.net # "ok" THEN ret = ReturnNone /\ Reason # <<>>
              ELSE IF last.code # 200
              THEN ret = ReturnNone
                   /\ Reason = <<"download of the result image failed: ", ToString(last.code)>>
              ELSE IF last.content = "<jpeg bytes>"
              THEN ret = [kind |-> "Image", content |-> last.content]
              ELSE ret = ReturnNone /\ Reason # <<>>

C6_Witness ==
    /\ selected_api = "PixelCut"
    /\ sent.kind = "download"
    /\ last.net = "ok"
    /\ last.code = 404
    /\ http["download"] = 1
    /\ ret = ReturnNone

\* C7 as stated: the request bodies FASHNClient.generate builds for tryon-v1.6
\* and for tryon-v1.5 have disjoint field sets: no field of the body of one
\* version appears in the body sent for the other.
C7_DisjointFieldSets ==
    (selected_api = "FASHN" /\ sent.kind = "submit")
        => \A v \in ModelVersions \ {sent.model_name} :
              sent.fields \cap FashnInputs(v) = {}

\* C7 amended: the body for tryon-v1.6 carries exactly model_image,
\* garment_image, category, mode, garment_photo_type, seed and num_samples; the
\* body for tryon-v1.5 carries these seven and moderation_level and
\* segmentation_free; so the two v1.5 fields never appear in a v1.6 body, and
\* model_name is the requested version.
C7_V15ExtendsV16 ==
    (selected_api = "FASHN" /\ sent.kind = "submit")
        => /\ sent.model_name = api_params.model_version
           /\ sent.fields =
                {"model_image", "garment_image", "category", "mode", "garment_photo_type",
                 "seed", "num_samples"}
                \cup (IF sent.model_name = "tryon-v1.6" THEN {}
                      ELSE {"moderation_level", "segmentation_free"})

C7_Witness ==
    /\ selected_api = "FASHN"
    /\ sent.kind = "submit"
    /\ sent.model_name = "tryon-v1.5"
    /\ "segmentation_free" \in sent.fields
    /\ http["submit"] = 1

SubmitTimedOut ==
    /\ selected_api \in {"FASHN", "Fitroom"}
    /\ pc = "done"
    /\ sent.kind = "submit"
    /\ last.net = "timeout"

\* the run ended because the poll loop ran out of attempts
PollCeilingExceeded ==
    /\ selected_api \in {"FASHN", "Fitroom"}
    /\ pc = "done"
    /\ attempt = (IF selected_api = "FASHN" THEN 40 ELSE 60)
    /\ \/ /\ sent.kind = "status"
          /\ (IF selected_api = "FASHN" THEN FashnPollOutcome(last)
              ELSE FitroomPollOutcome(last)).next = "poll"
       \/ /\ sent.kind = "download"
          /\ (IF selected_api = "FASHN" THEN FashnDownloadOutcome(last)
              ELSE FitroomDownloadOutcome(last)).next = "poll"

\* C9 as stated: the value generate returns for a network timeout of the submit
\* request differs from the value it returns when the polling ceiling is
\* exceeded.
C9_ResultsDiffer ==
    SubmitTimedOut => ret # PollTimeoutResult

\* C9 amended: generate returns None in both cases; the two failures differ
\* only in the error message shown: the submit timeout shows an error that is
\* not the polling timeout message, the exceeded ceiling shows the polling
\* timeout message.
C9_MessagesDiffer ==
    /\ SubmitTimedOut
        => /\ ret = ReturnNone
           /\ Reason # <<>>
           /\ Reason \notin {<<"FASHN API processing timed out">>,
                             <<"Fitroom API processing timed out">>}
    /\ PollCeilingExceeded
        => /\ ret = ReturnNone
           /\ Reason = (IF selected_api = "FASHN" THEN <<"FASHN API processing timed out">>
                        ELSE <<"Fitroom API processing timed out">>)

C9_Witness ==
    /\ SubmitTimedOut
    /\ selected_api = "FASHN"
    /\ Reason = <<"FASHN API timeout error">>
    /\ ret = ReturnNone

\* x is one of the parts of the failure reason
ReasonHas(x) == \E i \in 1..Len(Reason) : Reason[i] = x

\* the run ended on a submit response that the adapter takes for an error
SubmitErrorAnswered ==
    /\ pc = "done"
    /\ sent.kind = "submit"
    /\ last.net = "ok"
    /\ last.code \notin {200, 202}

\* C10 as stated: for each of the four adapters the failure reason of a
\* non-success submit response contains the value of the error, message or
\* detail field of a JSON body that carries one of them, and the raw body text
\* when the body is no JSON.
C10_ReasonHasErrorField ==
    SubmitErrorAnswered =>
        /\ (last.body.json = "object" /\ last.body.fields # {})
            => \E f \in last.body.fields : ReasonHas(FieldValue(f))
        /\ last.body.json = "invalid" => ReasonHas(ResponseText(last.body))

\* the fields of an error body each adapter reads, in the order it tries them
HandledFields ==
    [v \in Vendors |->
        CASE v = "FASHN" -> <<"error", "message", "detail">>
          [] v = "Fitroom" -> <<"error">>
          [] OTHER -> <<"error", "message">>]

\* C10 amended: the failure reason of a non-200 submit response holds the
\* status code and the value of the first field the JSON object carries among
\* error, message, detail for FASHNClient, among error, message for
\* TryOnDiffusionClient and PixelCutClient, and error alone for FitroomClient;
\* an object with none of the fields the adapter reads gives the status code
\* alone; a body that is no JSON gives the raw body text.
C10_ReasonHasHandledField ==
    SubmitErrorAnswered =>
        LET h == HandledFields[selected_api]
            body == last.body
        IN /\ Reason[2] = ToString(last.code)
           /\ body.json = "object" =>
                /\ \A i \in 1..Len(h) :
                      (h[i] \in body.fields /\ \A j \in 1..(i - 1) : h[j] \notin body.fields)
                          => (Len(Reason) = 4 /\ Reason[4] = FieldValue(h[i]))
                /\ (\A i \in 1..Len(h) : h[i] \notin body.fields) => Len(Reason) = 2
           /\ body.json = "invalid" => (Len(Reason) = 4 /\ Reason[4] = ResponseText(body))

C10_Witness ==
    /\ SubmitErrorAnswered
    /\ selected_api = "FASHN"
    /\ last.body.json = "object"
    /\ last.body.fields = {"detail"}
    /\ ReasonHas(FieldValue("detail"))

\* the last HTTP exchange was a status poll of a poll loop that met a network
\* error
PollNetworkError ==
    /\ selected_api \in {"FASHN", "Fitroom"}
    /\ sent.kind = "status"
    /\ last.net = "error"

\* C11 as stated: in FASHNClient and FitroomClient a network error on a status
\* poll produces no message of its own: the only message such errors cause is
\* the timeout failure at the ceiling.
C11_PollErrorsSilent ==
    PollNetworkError =>
        IF pc = "poll" THEN messages = <<>>
        ELSE messages = <<Msg("error", IF selected_api = "FASHN" THEN FashnPollTimeoutError
                                       ELSE FitroomPollTimeoutError)>>

\* C11 amended: every network error on a status poll shows one message of its
\* own, a warning "network error while polling" in FASHNClient and an error
\* "error while getting the status" in FitroomClient; the loop goes on, no
\* value is returned for it, and the failure generate ends in is the timeout
\* failure once the ceiling is reached.
C11_PollErrorsShown ==
    PollNetworkError =>
        IF pc = "poll"
        THEN /\ ret = NoResult
             /\ messages =
                  (IF selected_api = "FASHN"
                   THEN <<[level |-> "warning",
                           text |-> <<"network error while polling: ", "<exception>">>]>>
                   ELSE <<[level |-> "error",
                           text |-> <<"error while getting the status: ", "<exception>">>]>>)
        ELSE /\ pc = "done"
             /\ ret = ReturnNone
             /\ attempt = (IF selected_api = "FASHN" THEN 40 ELSE 60)
             /\ messages = <<[level |-> "error",
                              text |-> (IF selected_api = "FASHN"
                                        THEN <<"FASHN API processing timed out">>
                                        ELSE <<"Fitroom API processing timed out">>)]>>

C11_Witness ==
    /\ PollNetworkError
    /\ selected_api = "Fitroom"
    /\ pc = "poll"
    /\ attempt = 3
    /\ Len(messages) = 1
    /\ messages[1].level = "error"

\* the last HTTP exchange was a model image check that answered with a
\* negative result (is_good false)
NegativeModelCheck ==
    /\ sent.kind = "check_model"
    /\ last.net = "ok"
    /\ last.code = 200
    /\ last.json = "object"
    /\ ~last.is_good

\* the run ended at the model image check: no clothes check and no task
\* submission were issued
EndedAtModelCheck ==
    /\ pc = "done"
    /\ ret = ReturnNone
    /\ http["check_clothes"] = 0
    /\ http["submit"] = 0
    /\ http["status"] = 0

\* C12 as stated: in FitroomClient.generate with image checking, a negative
\* person-image result whose error code is any 4xx-class code makes generate
\* fail at once, with neither the garment check nor the task submission issued.
C12_Any4xxFatal ==
    (NegativeModelCheck /\ last.error_code \in {"4001", "4040", "401"})
        => EndedAtModelCheck

\* C12 amended: a negative person-image result whose error code is a string
\* that starts with "400" makes generate fail at once with the error "the
\* model image cannot be used", neither the garment check nor the task
\* submission issued; a string code of another 4xx class (401, 4040) is only
\* warned about and the garment check follows.
C12_400PrefixFatal ==
    /\ (NegativeModelCheck /\ last.error_code = "4001")
        => (EndedAtModelCheck /\ Reason = <<"the model image cannot be used">>)
    /\ (NegativeModelCheck /\ last.error_code \in {"4040", "401"})
        => /\ pc = "check_clothes"
           /\ ret = NoResult
           /\ Len(messages) = 1
           /\ messages[1].level = "warning"

C12_Witness ==
    /\ NegativeModelCheck
    /\ last.error_code = "4001"
    /\ EndedAtModelCheck
    /\ http["check_model"] = 1
    /\ Reason = <<"the model image cannot be used">>

\* a pre-check request has just been answered, and not by a negative
\* person-image result with a 4xx error code
NonFatalPreCheck ==
    /\ sent.kind \in {"check_model", "check_clothes"}
    /\ ~(NegativeModelCheck /\ last.error_code \in {"4001", "4040", "401"})

\* C13: in FitroomClient.generate with image checking every pre-check outcome
\* other than a 4xx-coded negative person-image result is non-blocking: the
\* run goes on to the garment check and the task submission.
C13_OtherOutcomesNonBlocking ==
    NonFatalPreCheck =>
        /\ pc = (IF sent.kind = "check_model" THEN "check_clothes" ELSE "create_task")
        /\ ret = NoResult

\* the PixelCut submit request was answered with the status code 202
PixelCutAccepted ==
    /\ selected_api = "PixelCut"
    /\ sent.kind = "submit"
    /\ last.net = "ok"
    /\ last.code = 202

\* some message of the last step is a st.error
ErrorShown == \E i \in 1..Len(messages) : messages[i].level = "error"

OneJobPolled ==
    /\ http["submit"] <= 1
    /\ job_id # None => (http["submit"] = 1 /\ selected_api \in {"FASHN", "Fitroom"})
    /\ (sent.kind = "submit" /\ pc = "poll")
        => job_id = (IF selected_api = "FASHN" THEN last.id ELSE last.task_id)
    /\ sent.kind = "status" => (job_id \in {"job-1", "job-2"} /\ sent.id = job_id)
    /\ http["status"] > 0 => job_id # None

\* C15: within one generate call of any adapter at most one job is created (at
\* most one submit POST is issued), and every status poll of the call asks for
\* the identifier that submit returned; the identifier never changes afterwards.
C15_OneJobPerCall ==
    /\ []OneJobPolled
    /\ [][job_id # None => job_id' = job_id]_vars

C15_Witness ==
    /\ selected_api = "Fitroom"
    /\ sent.kind = "status"
    /\ sent.id = "job-2"
    /\ job_id = "job-2"
    /\ attempt = 2
    /\ http["download"] = 1
    /\ http["submit"] = 1

\* one of the three things main requires is missing: the person image, the
\* garment image, the credential of the selected vendor
MainInputMissing ==
    \/ ~person_img
    \/ ~garment_img
    \/ api_config[api_key_map[selected_api]] \in {None, ""}

\* C16: the main flow never invokes an adapter (execute_tryon) unless the
\* person image and the garment image are both present and the credential of
\* the selected vendor is present; when one is missing the run ends with an
\* error and zero HTTP requests.
C16_NoAdapterWithoutInputs ==
    (entry = "main" /\ MainInputMissing /\ pc # "idle")
        => /\ pc = "rejected"
           /\ Len(messages) = 1
           /\ messages[1].level = "error"
           /\ TotalRequests = 0
           /\ api_key = None
           /\ ret = NoResult

C16_Witness ==
    /\ entry = "main"
    /\ selected_api = "FASHN"
    /\ person_img
    /\ ~garment_img
    /\ api_config["fashn_api_key"] = "key"
    /\ pc = "rejected"
    /\ Reason = <<"upload both the person and the garment image">>
    /\ TotalRequests = 0

\* the client of a run of the main flow holds the credential stored for the
\* selected vendor
ClientHoldsOwnKey ==
    (entry = "main" /\ pc \notin {"idle", "rejected"})
        => api_key = api_config[api_key_map[selected_api]]

\* C17: no try-on request, whether it ends in success, failure or timeout,
\* changes the credential configuration: api_config holds the same four values
\* in every step of the run, and the adapter only holds the key it was given,
\* the one stored for the selected vendor.
C17_ConfigUnchanged ==
    /\ [][api_config' = api_config]_vars
    /\ []ClientHoldsOwnKey

C17_Witness ==
    /\ entry = "main"
    /\ selected_api = "Fitroom"
    /\ pc = "done"
    /\ ret = ReturnNone
    /\ Reason = <<"Fitroom API processing timed out">>
    /\ api_key = "key"
    /\ api_config = [segmind_api_key |-> "other key", pixelcut_api_key |-> "other key",
                     fashn_api_key |-> "other key", fitroom_api_key |-> "key"]

\* a call of TryOnDiffusionClient.generate with a credential has ended
TryOnDiffusionCalled ==
    /\ selected_api = "Try-On Diffusion"
    /\ api_key \notin {None, ""}
    /\ pc \notin {"idle", "generate", "rejected"}

\* C18 as stated: TryOnDiffusionClient.generate issues exactly one HTTP request
\* (the POST) per call with a credential and never polls.
C18_ExactlyOneRequest ==
    TryOnDiffusionCalled =>
        /\ TotalRequests = 1
        /\ http["submit"] = 1

\* C18 amended: a call with a credential issues at most one HTTP request, the
\* POST, and never polls: exactly one once both images were encoded, none when
\* encoding an image raises (the exception leaves generate).  On a 200 response
\* it decodes the result at once, from the embedded base64 image when the
\* declared content type is JSON and from the raw body bytes otherwise, and a
\* 200 JSON body without an image field is a failure.
C18_OnePostNoPolling ==
    TryOnDiffusionCalled =>
        /\ http["status"] = 0
        /\ http["download"] = 0
        /\ http["check_model"] = 0
        /\ http["check_clothes"] = 0
        /\ job_id = None
        /\ IF pc = "raised"
           THEN TotalRequests = 0 /\ ret = NoResult
           ELSE /\ pc = "done"
                /\ http["submit"] = 1
                /\ sent.method = "POST"
                /\ (last.net = "ok" /\ last.code = 200) =>
                      IF last.ctype = "application/json"
                      THEN /\ (last.json = "object" /\ last.image = "<jpeg bytes>")
                                => ret = [kind |-> "Image", content |-> last.image]
                           /\ (last.json \in {"object", "array"} /\ last.image = Absent)
                                => /\ ret = ReturnNone
                                   /\ Reason = <<"the API response holds no image data">>
                      ELSE last.content = "<jpeg bytes>"
                                => ret = [kind |-> "Image", content |-> last.content]
                /\ ret.kind = "Image" => (last.net = "ok" /\ last.code = 200)

C18_Witness ==
    /\ TryOnDiffusionCalled
    /\ pc = "done"
    /\ last.net = "ok"
    /\ last.code = 200
    /\ last.ctype = "application/json"
    /\ last.json = "object"
    /\ ret = [kind |-> "Image", content |-> "<jpeg bytes>"]
    /\ TotalRequests = 1

\* an encoder has produced the JPEG of the bitmap generate was called with
BitmapEncoded ==
    /\ pc \in {"encoded", "encoded model", "encoded garment"}
    /\ encoded.kind = "jpeg"

\* C19 as stated: for every adapter, encoding an input bitmap into the form the
\* vendor requires keeps its pixel width and height.
C19_EncodingKeepsSize ==
    BitmapEncoded => (encoded.width = image.width /\ encoded.height = image.height)

\* the larger of two numbers
Larger(a, b) == IF a > b THEN a ELSE b

\* C19 amended: the encoders of TryOnDiffusionClient, PixelCutClient and
\* FitroomClient keep the pixel width and height.  FASHNClient keeps them only
\* for a model image that fits in 1024 x 1024 and a garment image that fits in
\* 768 x 768; a larger bitmap is sent scaled down, its longer side 1024 (model)
\* or 768 (garment) and the other side shorter than before.
C19_SizeKeptUnlessFashnLimit ==
    BitmapEncoded =>
        LET limit == IF pc = "encoded model" THEN 1024 ELSE 768
        IN IF selected_api # "FASHN" \/ (image.width <= limit /\ image.height <= limit)
           THEN encoded.width = image.width /\ encoded.height = image.height
           ELSE /\ Larger(encoded.width, encoded.height) = limit
                /\ encoded.width < image.width
                /\ encoded.height < image.height
                /\ encoded.width >= 1
                /\ encoded.height >= 1

C19_Witness ==
    /\ BitmapEncoded
    /\ selected_api = "FASHN"
    /\ pc = "encoded garment"
    /\ image.width = 1024
    /\ image.height = 768
    /\ encoded = [kind |-> "jpeg", width |-> 768, height |-> 576]

\* a status poll of a poll loop has reported completed / COMPLETED
CompletedReported ==
    /\ selected_api \in {"FASHN", "Fitroom"}
    /\ StatusObjectPolled
    /\ last.status \in {"completed", "COMPLETED"}

\* C20: in FASHNClient and FitroomClient completed/COMPLETED is a terminal
\* status: once a status poll has reported it the poll loop ends whatever the
\* download does, so no further status poll is issued and at most one download
\* GET is issued per generate call.
C20_CompletedIsTerminal ==
    /\ CompletedReported => pc \in {"download", "done"}
    /\ ResultDownloaded => (pc = "done" /\ http["download"] = 1)

\* the submit call of a poll adapter was answered without a usable job
\* identifier: a transport error, a non-2xx status, or a body lacking the id
SubmitWithoutJob ==
    /\ selected_api \in {"FASHN", "Fitroom"}
    /\ sent.kind = "submit"
    /\ \/ last.net # "ok"
       \/ last.code \notin 200..299
       \/ (IF selected_api = "FASHN" THEN last.id ELSE last.task_id) \notin {"job-1", "job-2"}

\* polls come after a submit call that returned an identifier, downloads after
\* a poll
SubmitPollDownloadOrder ==
    selected_api \in {"FASHN", "Fitroom"} =>
        /\ SubmitWithoutJob => (pc = "done" /\ ret = ReturnNone /\ http["status"] = 0)
        /\ http["status"] > 0 => (http["submit"] = 1 /\ job_id \in {"job-1", "job-2"})
        /\ http["download"] > 0 => http["status"] > 0
        /\ http["download"] <= http["status"]

\* a download GET is issued only in the step after a poll that reported
\* completed / COMPLETED
DownloadFollowsCompleted ==
    (selected_api \in {"FASHN", "Fitroom"} /\ http'["download"] > http["download"])
        => /\ sent.kind = "status"
           /\ last.net = "ok"
           /\ last.code = 200
           /\ last.status \in {"completed", "COMPLETED"}

\* C21: in FASHNClient and FitroomClient events follow the order submit, poll,
\* download: no status poll is issued unless the submit call returned success
\* with a job identifier (otherwise generate ends in failure with zero polls),
\* and no download GET is issued before a poll has reported completed/COMPLETED.
C21_SubmitPollDownload ==
    /\ []SubmitPollDownloadOrder
    /\ [][DownloadFollowsCompleted]_vars

C21_Witness ==
    /\ selected_api = "FASHN"
    /\ sent.kind = "download"
    /\ http["submit"] = 1
    /\ http["status"] = 3
    /\ http["download"] = 1
    /\ ret = [kind |-> "Image", content |-> "<jpeg bytes>"]

\* C24: in FitroomClient.generate the pre-submission checks are optional and
\* ordered: with check_images false no check request is issued and the first
\* HTTP request is the task submission; with check_images true the
\* person-image check is issued first, then the garment-image check, and the
\* task submission only after both.
C24_ChecksOptionalAndOrdered ==
    (selected_api = "Fitroom" /\ entry \in {"main", "generate"}) =>
        /\ http["check_model"] <= 1
        /\ http["check_clothes"] <= 1
        /\ IF api_params.check_images
           THEN /\ http["check_clothes"] = 1 => http["check_model"] = 1
                /\ http["submit"] = 1 => (http["check_model"] = 1 /\ http["check_clothes"] = 1)
                /\ TotalRequests = 1 => sent.kind = "check_model"
                /\ TotalRequests = 2 => sent.kind = "check_clothes"
                /\ TotalRequests = 3 => sent.kind = "submit"
           ELSE /\ http["check_model"] = 0
                /\ http["check_clothes"] = 0
                /\ TotalRequests = 1 => sent.kind = "submit"

C24_Witness ==
    /\ selected_api = "Fitroom"
    /\ api_params.check_images
    /\ sent.kind = "submit"
    /\ http["check_model"] = 1
    /\ http["check_clothes"] = 1
    /\ http["submit"] = 1
    /\ TotalRequests = 3

\* the last HTTP request was a Fitroom task submission
TaskSubmitted ==
    /\ selected_api = "Fitroom"
    /\ sent.kind = "submit"

\* C25 as stated: every Fitroom task submission carries exactly three images
\* when its type field is combo and exactly two when it is anything else; no
\* submission is sent with type combo and only two images, and the type field
\* equals the requested cloth_type.
C25_ComboHasThreeImages ==
    TaskSubmitted =>
        /\ sent.cloth_type = api_params.cloth_type
        /\ sent.files = (IF sent.cloth_type = "combo"
                         THEN {"model_image", "cloth_image", "lower_cloth_image"}
                         ELSE {"model_image", "cloth_image"})

\* C25 amended: the type field always equals the requested cloth_type; the
\* submission carries three images when the type is combo and a lower garment
\* image was passed, and two images otherwise, so a type other than combo never
\* carries three.  FitroomClient itself sends a combo task with only two
\* images when it is called without a lower garment image; it is the check of
\* main that keeps every submission of the main flow with type combo at three.
C25_ThreeImagesWhenComboAndLower ==
    TaskSubmitted =>
        /\ sent.cloth_type = api_params.cloth_type
        /\ sent.files =
             (IF api_params.cloth_type = "combo" /\ api_params.lower_cloth_image
              THEN {"model_image", "cloth_image", "lower_cloth_image"}
              ELSE {"model_image", "cloth_image"})
        /\ entry = "main" =>
             (sent.cloth_type = "combo" <=> Cardinality(sent.files) = 3)

C25_Witness ==
    /\ TaskSubmitted
    /\ entry = "main"
    /\ sent.cloth_type = "combo"
    /\ sent.files = {"model_image", "cloth_image", "lower_cloth_image"}
    /\ http["submit"] = 1

\* the run is over: main returned early, generate returned, or an exception
\* left generate
Terminated == pc \in {"rejected", "done", "raised"}

\* the status polls of a run stay within the ceiling of its adapter, and the
\* other adapters never poll
PollsWithinCeiling ==
    /\ http["status"] <= (CASE selected_api = "FASHN" -> 40
                            [] selected_api = "Fitroom" -> 60
                            [] OTHER -> 0)
    /\ attempt = http["status"]

\* C22: every generate call of every adapter terminates, provided each HTTP
\* call returns or raises: whatever the vendor answers, the call ends after at
\* most 40 (FASHN) or 60 (Fitroom) status polls, and stays ended.
C22_GenerateTerminates ==
    /\ <>[]Terminated
    /\ []PollsWithinCeiling

C22_Witness ==
    /\ Terminated
    /\ selected_api = "Fitroom"
    /\ http["status"] = 60
    /\ http["download"] = 2
    /\ sent.kind = "download"
    /\ ret = ReturnNone

\* the call of a file operation has ended: it returned or an exception left it
FileCallEnded == entry \in FileOps /\ pc \in {"returned", "raised"}

\* C23: when PixelCutClient.generate, check_model_image, check_clothes_image
\* or create_tryon_task has ended, whether it returned or an exception left
\* it, no temporary image file it created still exists, except a file whose
\* own os.unlink raised
C23_TempFilesDeleted ==
    FileCallEnded => \A p \in TempPaths : temp[p] \in {"none", "deleted", "kept"}

\* C26: when PixelCutClient.generate or create_tryon_task has ended, no file
\* object it opened on a temporary image for the multipart upload is open
C26_FileHandlesClosed ==
    (FileCallEnded /\ entry \in {"PixelCutClient.generate", "create_tryon_task"})
        => \A p \in TempPaths : handle[p] # "open"

\* a step keeps every present credential present, and changes a stored key
\* only to the non-empty text of the input that belongs to it
KeysKept ==
    \A key \in ManualKeys :
        LET k == key \o "_api_key"
        IN /\ (api_config[k] \notin {None, ""}) => (api_config'[k] \notin {None, ""})
           /\ (api_config'[k] # api_config[k])
                 => (manual_keys'[key] # "" /\ api_config'[k] = manual_keys'[key])
           /\ (manual_keys'[key] = "") => (api_config'[k] = api_config[k])

\* C27: across the reruns of the UI a credential that is present in the
\* session configuration never becomes absent; render_api_sidebar replaces a
\* stored key only by the non-empty input of its own vendor, so an empty or
\* cleared input leaves the key as it was
C27_PresentKeyStaysPresent == [][KeysKept]_vars

\* a rerun in which the Segmind input was cleared and its key stayed, the
\* PixelCut key was replaced by a typed one, and the unset FASHN key stayed unset
C27_Witness ==
    /\ entry = "sidebar"
    /\ pc = "rendered"
    /\ manual_keys["segmind"] = ""
    /\ api_config["segmind_api_key"] = "env key"
    /\ manual_keys["pixelcut"] = "typed key"
    /\ api_config["pixelcut_api_key"] = "typed key"
    /\ manual_keys["fashn"] = ""
    /\ api_config["fashn_api_key"] = None

====
